---- MODULE Spec2Model ----
(***************************************************************************)
(* yt_dlp_async: the identifier pipeline (video_id.py) and the metadata    *)
(* pipeline (video_metadata.py) with the persistence calls they make       *)
(* (database.py), as state machines over the asyncio event loop.           *)
(*                                                                         *)
(* One action is one run of a task between two suspension points.  The     *)
(* suspension points are asyncio.sleep, asyncio.wait_for, the enumerator   *)
(* subprocess and the HTTP request.  Calls of DatabaseOperations are       *)
(* "async def" without an await inside (psycopg2 is blocking), and put()   *)
(* on an unbounded asyncio.Queue never waits, so they do not suspend.      *)
(***************************************************************************)
EXTENDS Integers, Sequences, FiniteSets, TLC

(***************************************************************************)
(* Bounds                                                                  *)
(***************************************************************************)
NumWorkers == 2
\* the save pool of the runs (the code starts min(num_workers * 50, 150) workers)
NumSaveWorkers == 2
\* the most IDs a queue holds: the enumerator prints no more than fit
MaxQueue == 2

\* the IDs of the runs, and what the enumerator lists for any user or playlist
UserIds == {"u1"}
PlaylistIds == {"p1", "p2"}
VideoIds == {"v1", "v2"}
PlaylistListing == <<"p1">>
VideoListing == <<"v1", "v2">>
Workers == 1..NumWorkers

\* a local variable of a worker coroutine: <<>> while unbound, <<id>> once assigned
Unbound == <<>>

VARIABLES
    user_id_queue, playlist_id_queue, video_id_queue,
    unfinished_tasks, active_tasks,
    upc, ppc, vpc, user_id, playlist_id,
    yt_video_ids, insert_calls,
    expanded_playlist_ids,
    fpc, args, pool_closed,
    videos_to_be_processed, has_failed_metadata, yt_metadata,
    is_quota_exceeded, metadata_queue, metadata_unfinished, shutdown_event,
    rpc, spc, epc, video_ids, last_call, mfpc, margs,
    tables, txn, upsert, writes, aborted, video_id_rows, conflicts,
    text, teams, extracted, fetcher_date,
    e_events, event_run, event_runs,
    file, file_info, info_dict, named,
    video_file_queue, file_unfinished, dpc, video_id_taken, ffpc, fargs,
    yt_video_file, library, download_calls, download_errors,
    pool_used, db_call,
    queue_done, processing_tasks_counter

\* the storage as its tables (database.py), apart from the two pipelines
stvars == <<tables, txn, upsert, writes, aborted, video_id_rows, conflicts>>

\* the text handed to Utils.extract_teams or Utils.extract_date and what they
\* returned, and what Fetcher.extract_date of video_download.py returned for it
txvars == <<text, teams, extracted, fetcher_date>>

\* the rows of e_events, the last run of EventFetcher, and the runs of two
\* processes that share the database
evvars == <<e_events, event_run, event_runs>>

\* a file and what Utils.extract_video_info_filepath found in its name; the
\* info_dict of a download and what determine_path_and_name made of it
flvars == <<file, file_info, info_dict, named>>

\* the file pipeline (video_file.py): its queue, tasks and fetch, the rows of
\* yt_video_file, the files of the library, the downloads started and the
\* downloads logged as failed
dlvars == <<video_file_queue, file_unfinished, dpc, video_id_taken, ffpc, fargs,
            yt_video_file, library, download_calls, download_errors>>

\* the connections of the pool that are checked out, and the method of
\* DatabaseOperations each task is in
cnvars == <<pool_used, db_call>>

\* the module globals of the earlier revision of video_id.py: the three Events
\* and the three counters of items being processed
ervars == <<queue_done, processing_tasks_counter>>

\* what the pipelines' steps leave alone
others == <<stvars, txvars, evvars, flvars, dlvars, cnvars, ervars>>

idvars == <<user_id_queue, playlist_id_queue, video_id_queue,
            unfinished_tasks, active_tasks,
            upc, ppc, vpc, user_id, playlist_id,
            yt_video_ids, insert_calls,
            expanded_playlist_ids,
            fpc, args, pool_closed, others>>

\* the identifier pipeline without the connection pool, which both pipelines close
idwork == <<user_id_queue, playlist_id_queue, video_id_queue,
            unfinished_tasks, active_tasks,
            upc, ppc, vpc, user_id, playlist_id,
            yt_video_ids, insert_calls, expanded_playlist_ids, fpc, args, others>>

mdvars == <<videos_to_be_processed, has_failed_metadata, yt_metadata,
            is_quota_exceeded, metadata_queue, metadata_unfinished, shutdown_event,
            rpc, spc, epc, video_ids, last_call, mfpc, margs, others>>

\* the variables of the two pipelines
pipelines ==
    <<user_id_queue, playlist_id_queue, video_id_queue, unfinished_tasks,
      active_tasks, upc, ppc, vpc, user_id, playlist_id, yt_video_ids,
      insert_calls, expanded_playlist_ids, fpc, args, pool_closed,
      videos_to_be_processed, has_failed_metadata, yt_metadata,
      is_quota_exceeded, metadata_queue, metadata_unfinished, shutdown_event,
      rpc, spc, epc, video_ids, last_call, mfpc, margs>>

\* what the steps of one part leave alone
besides_store == <<txvars, evvars, flvars, dlvars, cnvars, ervars, pipelines>>
besides_text == <<stvars, evvars, flvars, dlvars, cnvars, ervars, pipelines>>
besides_events == <<stvars, txvars, flvars, dlvars, cnvars, ervars, pipelines>>
besides_files == <<stvars, txvars, evvars, dlvars, cnvars, ervars, pipelines>>

\* all but the file pipeline, the connections and the closing of the pool
besides_download_but_pool ==
    <<stvars, txvars, evvars, flvars, ervars,
      user_id_queue, playlist_id_queue, video_id_queue, unfinished_tasks,
      active_tasks, upc, ppc, vpc, user_id, playlist_id, yt_video_ids,
      insert_calls, expanded_playlist_ids, fpc, args,
      videos_to_be_processed, has_failed_metadata, yt_metadata,
      is_quota_exceeded, metadata_queue, metadata_unfinished, shutdown_event,
      rpc, spc, epc, video_ids, last_call, mfpc, margs>>

\* what the steps of the file pipeline leave alone: all but the closing of the
\* pool
besides_download == <<cnvars, besides_download_but_pool>>

\* what the steps of the connection pool leave alone
besides_pool == <<dlvars, besides_download_but_pool>>

mdvars_but_mfpc ==
    <<videos_to_be_processed, has_failed_metadata, yt_metadata,
      is_quota_exceeded, metadata_queue, metadata_unfinished, shutdown_event,
      rpc, spc, epc, video_ids, last_call, margs>>

vars == <<idvars, mdvars>>

(***************************************************************************)
(* Helpers                                                                 *)
(***************************************************************************)
Range(s) == {s[i] : i \in 1..Len(s)}

\* what the yt-dlp subprocess prints (_run_yt_dlp_command): the listing up to some
\* line, [] when it fails
EnumResults(listing) == {SubSeq(listing, 1, n) : n \in 0..Len(listing)}

\* the outputs that fit in queue q
Fitting(listing, q) ==
    {found \in EnumResults(listing) : Len(q) + Len(found) <= MaxQueue}

(***************************************************************************)
(* asyncio.Queue: put_nowait counts an unfinished task, task_done raises   *)
(* ValueError when none is left.                                           *)
(***************************************************************************)
QueueNames == {"user_id", "playlist_id", "video_id"}

\* Queue.empty() of the three queues
Empty(q) == q = <<>>

\* Queue.task_done(): TRUE when it raises ValueError("called too many times")
TaskDoneRaises(name) == unfinished_tasks[name] <= 0

\* the counters after a task_done() that does not raise
TaskDone(name) == [unfinished_tasks EXCEPT ![name] = @ - 1]

\* the counters after n put() calls
Put(name, n) == [unfinished_tasks EXCEPT ![name] = @ + n]

(***************************************************************************)
(* worker_user_ids                                                         *)
(***************************************************************************)
\* line 216: the loop's exit test
UserDone == Empty(user_id_queue) /\ active_tasks["user_id"] = 0

\* lines 216-217: break
UserBreak(w) ==
    /\ upc[w] = "loop"
    /\ UserDone
    /\ upc' = [upc EXCEPT ![w] = "finished"]
    /\ UNCHANGED <<user_id_queue, playlist_id_queue, video_id_queue,
                   unfinished_tasks, active_tasks, ppc, vpc, user_id, playlist_id,
                   yt_video_ids, insert_calls, expanded_playlist_ids, fpc, args, pool_closed, mdvars>>

\* lines 219-225: the queue is not empty: count the task active and wait for get()
\* (with the queue empty and a task active the worker sleeps 250 ms and tests again,
\* which changes nothing)
UserBegin(w) ==
    /\ upc[w] = "loop"
    /\ ~Empty(user_id_queue)
    /\ active_tasks' = [active_tasks EXCEPT !["user_id"] = @ + 1]
    /\ upc' = [upc EXCEPT ![w] = "get"]
    /\ UNCHANGED <<user_id_queue, playlist_id_queue, video_id_queue,
                   unfinished_tasks, ppc, vpc, user_id, playlist_id,
                   yt_video_ids, insert_calls, expanded_playlist_ids, fpc, args, pool_closed, mdvars>>

\* line 225: get() returns an item
UserGet(w) ==
    /\ upc[w] = "get"
    /\ ~Empty(user_id_queue)
    /\ user_id' = [user_id EXCEPT ![w] = <<Head(user_id_queue)>>]
    /\ user_id_queue' = Tail(user_id_queue)
    /\ upc' = [upc EXCEPT ![w] = "playlists"]
    /\ UNCHANGED <<playlist_id_queue, video_id_queue,
                   unfinished_tasks, active_tasks, ppc, vpc, playlist_id,
                   yt_video_ids, insert_calls, expanded_playlist_ids, fpc, args, pool_closed, mdvars>>

\* lines 245-251 after a get() that timed out: the handler and the finally block
\* format user_id, which is unbound in a worker that never got an item
\* (UnboundLocalError ends the task); task_done() raises when nothing is
\* unfinished, and then the decrement of line 250 is skipped
UserGetTimeout(w) ==
    /\ upc[w] = "get"
    /\ Empty(user_id_queue)
    /\ IF TaskDoneRaises("user_id")
       THEN /\ upc' = [upc EXCEPT ![w] = "died"]
            /\ UNCHANGED <<unfinished_tasks, active_tasks>>
       ELSE /\ unfinished_tasks' = TaskDone("user_id")
            /\ active_tasks' = [active_tasks EXCEPT !["user_id"] = @ - 1]
            /\ upc' = [upc EXCEPT ![w] =
                          IF user_id[w] = Unbound THEN "died" ELSE "loop"]
    /\ UNCHANGED <<user_id_queue, playlist_id_queue, video_id_queue,
                   ppc, vpc, user_id, playlist_id,
                   yt_video_ids, insert_calls, expanded_playlist_ids, fpc, args, pool_closed, mdvars>>

\* lines 229-236: the playlists of the user are enumerated and queued
UserPlaylists(w) ==
    /\ upc[w] = "playlists"
    /\ \E found \in Fitting(PlaylistListing, playlist_id_queue) :
          /\ playlist_id_queue' = playlist_id_queue \o found
          /\ unfinished_tasks' = Put("playlist_id", Len(found))
    /\ upc' = [upc EXCEPT ![w] = "videos"]
    /\ UNCHANGED <<user_id_queue, video_id_queue, active_tasks, ppc, vpc,
                   user_id, playlist_id, yt_video_ids, insert_calls,
                   expanded_playlist_ids, fpc, args, pool_closed, mdvars>>

\* lines 238-251: the videos of the user are enumerated and queued, then the
\* finally block: task_done(), the decrement
UserVideos(w) ==
    /\ upc[w] = "videos"
    /\ \E found \in Fitting(VideoListing, video_id_queue) :
          /\ video_id_queue' = video_id_queue \o found
          /\ IF TaskDoneRaises("user_id")
             THEN /\ unfinished_tasks' = Put("video_id", Len(found))
                  /\ upc' = [upc EXCEPT ![w] = "died"]
                  /\ UNCHANGED active_tasks
             ELSE /\ unfinished_tasks' =
                        [unfinished_tasks EXCEPT !["video_id"] = @ + Len(found),
                                                 !["user_id"] = @ - 1]
                  /\ active_tasks' = [active_tasks EXCEPT !["user_id"] = @ - 1]
                  /\ upc' = [upc EXCEPT ![w] = "loop"]
    /\ UNCHANGED <<user_id_queue, playlist_id_queue, ppc, vpc,
                   user_id, playlist_id, yt_video_ids, insert_calls,
                   expanded_playlist_ids, fpc, args, pool_closed, mdvars>>

(***************************************************************************)
(* worker_playlist_ids                                                     *)
(***************************************************************************)
\* line 260: the loop's exit test
PlaylistDone ==
    /\ Empty(user_id_queue)
    /\ Empty(playlist_id_queue)
    /\ active_tasks["user_id"] + active_tasks["playlist_id"] = 0

\* lines 260-261: break
PlaylistBreak(w) ==
    /\ ppc[w] = "loop"
    /\ PlaylistDone
    /\ ppc' = [ppc EXCEPT ![w] = "finished"]
    /\ UNCHANGED <<user_id_queue, playlist_id_queue, video_id_queue,
                   unfinished_tasks, active_tasks, upc, vpc, user_id, playlist_id,
                   yt_video_ids, insert_calls, expanded_playlist_ids, fpc, args, pool_closed, mdvars>>

\* lines 263-269: the queue is not empty: count the task active and wait for get()
PlaylistBegin(w) ==
    /\ ppc[w] = "loop"
    /\ ~Empty(playlist_id_queue)
    /\ active_tasks' = [active_tasks EXCEPT !["playlist_id"] = @ + 1]
    /\ ppc' = [ppc EXCEPT ![w] = "get"]
    /\ UNCHANGED <<user_id_queue, playlist_id_queue, video_id_queue,
                   unfinished_tasks, upc, vpc, user_id, playlist_id,
                   yt_video_ids, insert_calls, expanded_playlist_ids, fpc, args, pool_closed, mdvars>>

\* line 269: get() returns an item
PlaylistGet(w) ==
    /\ ppc[w] = "get"
    /\ ~Empty(playlist_id_queue)
    /\ playlist_id' = [playlist_id EXCEPT ![w] = <<Head(playlist_id_queue)>>]
    /\ playlist_id_queue' = Tail(playlist_id_queue)
    /\ ppc' = [ppc EXCEPT ![w] = "videos"]
    /\ UNCHANGED <<user_id_queue, video_id_queue,
                   unfinished_tasks, active_tasks, upc, vpc, user_id,
                   yt_video_ids, insert_calls, expanded_playlist_ids, fpc, args, pool_closed, mdvars>>

\* lines 284-290 after a get() that timed out, as in worker_user_ids
PlaylistGetTimeout(w) ==
    /\ ppc[w] = "get"
    /\ Empty(playlist_id_queue)
    /\ IF TaskDoneRaises("playlist_id")
       THEN /\ ppc' = [ppc EXCEPT ![w] = "died"]
            /\ UNCHANGED <<unfinished_tasks, active_tasks>>
       ELSE /\ unfinished_tasks' = TaskDone("playlist_id")
            /\ active_tasks' = [active_tasks EXCEPT !["playlist_id"] = @ - 1]
            /\ ppc' = [ppc EXCEPT ![w] =
                          IF playlist_id[w] = Unbound THEN "died" ELSE "loop"]
    /\ UNCHANGED <<user_id_queue, playlist_id_queue, video_id_queue,
                   upc, vpc, user_id, playlist_id,
                   yt_video_ids, insert_calls, expanded_playlist_ids, fpc, args, pool_closed, mdvars>>

\* lines 273-290: the videos of the playlist are enumerated and queued, then the
\* finally block: task_done(), the decrement
PlaylistVideos(w) ==
    /\ ppc[w] = "videos"
    /\ \E found \in Fitting(VideoListing, video_id_queue) :
          /\ video_id_queue' = video_id_queue \o found
          /\ expanded_playlist_ids' = expanded_playlist_ids \cup Range(playlist_id[w])
          /\ IF TaskDoneRaises("playlist_id")
             THEN /\ unfinished_tasks' = Put("video_id", Len(found))
                  /\ ppc' = [ppc EXCEPT ![w] = "died"]
                  /\ UNCHANGED active_tasks
             ELSE /\ unfinished_tasks' =
                        [unfinished_tasks EXCEPT !["video_id"] = @ + Len(found),
                                                 !["playlist_id"] = @ - 1]
                  /\ active_tasks' = [active_tasks EXCEPT !["playlist_id"] = @ - 1]
                  /\ ppc' = [ppc EXCEPT ![w] = "loop"]
    /\ UNCHANGED <<user_id_queue, playlist_id_queue, upc, vpc,
                   user_id, playlist_id, yt_video_ids, insert_calls,
                   fpc, args, pool_closed, mdvars>>

(***************************************************************************)
(* worker_video_ids                                                        *)
(***************************************************************************)
\* line 299: the loop's exit test
VideoDone ==
    /\ Empty(user_id_queue)
    /\ Empty(playlist_id_queue)
    /\ Empty(video_id_queue)
    /\ active_tasks["user_id"] + active_tasks["playlist_id"]
          + active_tasks["video_id"] = 0

\* lines 299-300: break
VideoBreak(w) ==
    /\ vpc[w] = "loop"
    /\ VideoDone
    /\ vpc' = [vpc EXCEPT ![w] = "finished"]
    /\ UNCHANGED <<user_id_queue, playlist_id_queue, video_id_queue,
                   unfinished_tasks, active_tasks, upc, ppc, user_id, playlist_id,
                   yt_video_ids, insert_calls, expanded_playlist_ids, fpc, args, pool_closed, mdvars>>

\* DatabaseOperations.insert_video_ids: INSERT ... ON CONFLICT (video_id) DO NOTHING
insert_video_ids(rows, video_ids_batch) == rows \cup Range(video_ids_batch)

\* lines 306-326: the whole queue is drained into one batch (get() of a queue that
\* is not empty does not suspend, each get() is followed by task_done()), the
\* batch is inserted, the counter goes up and down within the step
VideoBatch(w) ==
    /\ vpc[w] = "loop"
    /\ ~Empty(video_id_queue)
    /\ video_id_queue' = <<>>
    /\ unfinished_tasks' =
          [unfinished_tasks EXCEPT !["video_id"] = @ - Len(video_id_queue)]
    /\ yt_video_ids' = insert_video_ids(yt_video_ids, video_id_queue)
    /\ insert_calls' = insert_calls + 1
    /\ UNCHANGED <<user_id_queue, playlist_id_queue, active_tasks,
                   upc, ppc, vpc, user_id, playlist_id, expanded_playlist_ids, fpc, args, pool_closed, mdvars>>

(***************************************************************************)
(* Fetcher.fetch of video_id.py                                            *)
(***************************************************************************)
\* Fetcher.add_ids_to_queue: its third argument is one asyncio.Queue, and the body
\* reads queue_manager.video_id_queue of it (AttributeError at the first ID);
\* read_func is a coroutine function called without await, and iterating its
\* result is a TypeError.  The outcome of one call: "ok" only when there is
\* nothing to add.
add_ids_to_queue(ids, id_files) ==
    IF ids # {} THEN "AttributeError"
    ELSE IF id_files # {} THEN "TypeError"
    ELSE "ok"

\* a variant in which the coroutine runs and inserts the IDs
read_ids_awaited(rows, ids, id_files) == rows \cup ids \cup id_files

\* the rows after Utils.read_ids_from_cli_argument_insert_db is called at line 166:
\* the call makes a coroutine that is never awaited, so nothing is inserted
read_ids_from_cli_argument_insert_db(rows, ids, id_files) == rows

Created == [w \in Workers |-> "loop"]
NotCreated == [w \in Workers |-> "none"]
Ended(pc) == \A w \in Workers : pc[w] \in {"finished", "died"}

\* A value of the parameter num_workers as the command line passes it: an int, or
\* a value of another type (FloatValue(n) is the float n + 0.5).
IntValue(n) == [type |-> "int", value |-> n]
FloatValue(n) == [type |-> "float", value |-> n]

\* the values of num_workers of the runs
NumWorkersValues == {IntValue(0), IntValue(NumWorkers), FloatValue(NumWorkers)}

\* a variant of the test without isinstance
not_positive(num_workers) == num_workers.value <= 0

\* line 151 of video_id.py, line 165 of video_metadata.py, line 142 of
\* video_file.py: not isinstance(num_workers, int) or num_workers <= 0
invalid_num_workers(num_workers) ==
    num_workers.type # "int" \/ num_workers.value <= 0

\* lines 151-153 and 181-182: num_workers is not a positive integer
FetchInvalid ==
    /\ fpc = "start"
    /\ invalid_num_workers(args.num_workers)
    /\ pool_closed' = TRUE
    /\ fpc' = "returned"
    /\ UNCHANGED <<user_id_queue, playlist_id_queue, video_id_queue,
                   unfinished_tasks, active_tasks, upc, ppc, vpc, user_id,
                   playlist_id, yt_video_ids, insert_calls, expanded_playlist_ids, args, mdvars>>

\* lines 155-169 and 181-182: the tasks are created, the seeds are added; an
\* exception of add_ids_to_queue leaves fetch through the finally block
FetchSeed ==
    /\ fpc = "start"
    /\ ~invalid_num_workers(args.num_workers)
    /\ upc' = Created
    /\ ppc' = Created
    /\ vpc' = Created
    /\ IF /\ add_ids_to_queue(args.user_ids, args.user_id_files) = "ok"
          /\ add_ids_to_queue(args.playlist_ids, args.playlist_id_files) = "ok"
       THEN /\ yt_video_ids' = read_ids_from_cli_argument_insert_db(
                                   yt_video_ids, args.video_ids, args.video_id_files)
            /\ fpc' = "gather"
            /\ UNCHANGED pool_closed
       ELSE /\ pool_closed' = TRUE
            /\ fpc' = "raised"
            /\ UNCHANGED yt_video_ids
    /\ UNCHANGED <<user_id_queue, playlist_id_queue, video_id_queue,
                   unfinished_tasks, active_tasks, user_id, playlist_id,
                   insert_calls, expanded_playlist_ids, args, mdvars>>

\* line 172: gather(..., return_exceptions=True) returns when every task has ended
FetchGather ==
    /\ fpc = "gather"
    /\ Ended(upc) /\ Ended(ppc) /\ Ended(vpc)
    /\ fpc' = "join"
    /\ UNCHANGED <<user_id_queue, playlist_id_queue, video_id_queue,
                   unfinished_tasks, active_tasks, upc, ppc, vpc, user_id,
                   playlist_id, yt_video_ids, insert_calls, expanded_playlist_ids, args, pool_closed, mdvars>>

\* lines 175-182: the three join() calls return when nothing is unfinished, then
\* the pool is closed
FetchJoin ==
    /\ fpc = "join"
    /\ \A name \in QueueNames : unfinished_tasks[name] = 0
    /\ pool_closed' = TRUE
    /\ fpc' = "returned"
    /\ UNCHANGED <<user_id_queue, playlist_id_queue, video_id_queue,
                   unfinished_tasks, active_tasks, upc, ppc, vpc, user_id,
                   playlist_id, yt_video_ids, insert_calls, expanded_playlist_ids, args, mdvars>>

(***************************************************************************)
(* The metadata pipeline: storage (database.py)                            *)
(***************************************************************************)
\* LIMIT 50 of the selection
SelectLimit == 50

Min(a, b) == IF a <= b THEN a ELSE b

\* a variant of the selection without its WHERE clause
select_any_rows(rows, failed) ==
    {sel \in SUBSET rows : Cardinality(sel) = Min(SelectLimit, Cardinality(rows))}

\* DatabaseOperations.get_video_ids_without_metadata: the possible results, each
\* up to 50 rows of yt_videos_to_be_processed with has_failed_metadata = FALSE,
\* in random order (the order is not used)
get_video_ids_without_metadata(rows, failed) ==
    LET eligible == rows \ failed
    IN {sel \in SUBSET eligible :
            Cardinality(sel) = Min(SelectLimit, Cardinality(eligible))}

\* DatabaseOperations.set_video_id_failed_metadata_true: UPDATE ... SET
\* has_failed_metadata = TRUE WHERE video_id = %s, for each of the IDs
set_video_id_failed_metadata_true(rows, failed, ids) == failed \cup (ids \cap rows)

\* DatabaseOperations.insert_video_ids_bulk: INSERT INTO yt_videos_to_be_processed
\* (video_id) ... ON CONFLICT (video_id) DO NOTHING: new rows are not quarantined,
\* the rows already there keep their flag
insert_video_ids_bulk(rows, failed, ids) == [rows |-> rows \cup ids, failed |-> failed]

\* a variant of the upsert that stores nothing
upsert_dropped(metadata_rows, meta_dict) == metadata_rows

\* DatabaseOperations.insert_update_video_metadata: one row per video_id,
\* INSERT ... ON CONFLICT (video_id) DO UPDATE
insert_update_video_metadata(metadata_rows, meta_dict) == metadata_rows \cup {meta_dict}

(***************************************************************************)
(* VideoIdOperations.fetch_video_metadata                                  *)
(***************************************************************************)
\* What the metadata API answers to a request for a batch: 200 with the items of
\* some of the IDs, 403 with reason quotaExceeded or another reason, or 500.
Responses(batch) ==
    {[status |-> 200, reason |-> "", items |-> found] : found \in SUBSET batch}
    \cup {[status |-> 403, reason |-> r, items |-> {}] : r \in {"quotaExceeded", "forbidden"}}
    \cup {[status |-> 500, reason |-> "", items |-> {}]}

\* a variant of lines 84-120 that takes the 200 path whatever the status is
flag_absent_always(batch, response, quota, local) ==
    [raised |-> "", items |-> response.items,
     problematic |-> batch \ response.items, requested |-> TRUE, quota |-> quota]

\* Lines 84-120 for one value of the name isQuotaExceeded ("unbound", "true" or
\* "false").  The result of the call: the exception raised or "" for a return,
\* the items returned, the IDs passed to set_video_id_failed_metadata_true,
\* whether the request was sent, and the value of the global is_quota_exceeded
\* afterwards.
fetch_video_metadata_body(batch, response, quota, local) ==
    IF local = "unbound"
    THEN \* line 84: UnboundLocalError
         [raised |-> "UnboundLocalError", items |-> {}, problematic |-> {},
          requested |-> FALSE, quota |-> quota]
    ELSE IF local = "true"
    THEN \* lines 118-120
         [raised |-> "", items |-> {}, problematic |-> {},
          requested |-> FALSE, quota |-> quota]
    ELSE IF response.status = 200 /\ response.items # {}
    THEN \* lines 91-104
         [raised |-> "", items |-> response.items,
          problematic |-> batch \ response.items,
          requested |-> TRUE, quota |-> quota]
    ELSE \* lines 105-117: line 111 assigns the local, not the global
         [raised |-> "", items |-> {}, problematic |-> {},
          requested |-> TRUE, quota |-> quota]

\* The function declares "global is_quota_exceeded" (line 79) but reads and
\* assigns isQuotaExceeded (lines 84, 111).  The assignment makes that name a
\* local of the function, and nothing binds it before line 84 reads it.
isQuotaExceeded == "unbound"

\* one call of VideoIdOperations.fetch_video_metadata
fetch_video_metadata(batch, response, quota) ==
    fetch_video_metadata_body(batch, response, quota, isQuotaExceeded)

\* Lines 214-220 of worker_retrieve_metadata: the records put on the queue for the
\* items of one batch.  Utils.extract_date is a plain function returning a
\* datetime or None, so "await Utils.extract_date(...)" at line 216 raises
\* TypeError for the first item, before any put().
queued_records(items) == <<>>

(***************************************************************************)
(* worker_retrieve_metadata                                                *)
(***************************************************************************)
NoCall == [batch |-> {}, response |-> [status |-> 0, reason |-> "", items |-> {}],
           raised |-> "", problematic |-> {}, requested |-> FALSE,
           records |-> <<>>, called |-> FALSE]

\* Lines 204-227, one pass of the loop.  Nothing in the pass suspends: the
\* selection is a blocking database call and fetch_video_metadata raises before
\* its request.  So the counter active_tasks['retrieve'] goes up and down within
\* the step and is 0 at line 225.
Retrieve(w) ==
    /\ rpc[w] = "loop"
    /\ ~shutdown_event
    /\ IF is_quota_exceeded
       THEN /\ rpc' = [rpc EXCEPT ![w] = "finished"]
            /\ UNCHANGED <<video_ids, last_call, has_failed_metadata,
                           metadata_queue, metadata_unfinished, is_quota_exceeded>>
       ELSE \E sel \in get_video_ids_without_metadata(videos_to_be_processed,
                                                        has_failed_metadata) :
            /\ video_ids' = [video_ids EXCEPT ![w] = <<sel>>]
            /\ IF sel = {}
               THEN /\ rpc' = [rpc EXCEPT ![w] = "finished"]
                    /\ UNCHANGED <<last_call, has_failed_metadata, metadata_queue,
                                   metadata_unfinished, is_quota_exceeded>>
               ELSE \E response \in Responses(sel) :
                    LET r == fetch_video_metadata(sel, response, is_quota_exceeded)
                        recs == IF r.raised = "" THEN queued_records(r.items) ELSE <<>>
                    IN /\ has_failed_metadata' =
                            set_video_id_failed_metadata_true(
                                videos_to_be_processed, has_failed_metadata,
                                r.problematic)
                       /\ is_quota_exceeded' = r.quota
                       /\ metadata_queue' = metadata_queue \o recs
                       /\ metadata_unfinished' = metadata_unfinished + Len(recs)
                       /\ last_call' = [last_call EXCEPT ![w] =
                              [batch |-> sel, response |-> response,
                               raised |-> r.raised, problematic |-> r.problematic,
                               requested |-> r.requested, records |-> recs,
                               called |-> TRUE]]
                       /\ rpc' = [rpc EXCEPT ![w] =
                              IF r.quota THEN "finished" ELSE "loop"]
    /\ UNCHANGED <<videos_to_be_processed, yt_metadata, shutdown_event,
                   spc, epc, mfpc, margs, idvars>>

(***************************************************************************)
(* worker_save_metadata                                                    *)
(***************************************************************************)
SaveWorkers == 1..NumSaveWorkers

\* line 251: the exit test of the finally block
SaveDone(queue) == shutdown_event /\ Empty(queue)

\* lines 237-253 with an empty queue: the pass does nothing, and the worker leaves
\* the loop when shutdown is signalled (otherwise it sleeps 250 ms and tries again)
SaveBreak(w) ==
    /\ spc[w] = "loop"
    /\ Empty(metadata_queue)
    /\ SaveDone(metadata_queue)
    /\ spc' = [spc EXCEPT ![w] = "finished"]
    /\ UNCHANGED <<videos_to_be_processed, has_failed_metadata, yt_metadata,
                   is_quota_exceeded, metadata_queue, metadata_unfinished,
                   shutdown_event, rpc, epc, video_ids, last_call, mfpc, margs,
                   idvars>>

\* lines 239-241: the queue is not empty: wait for get()
SaveBegin(w) ==
    /\ spc[w] = "loop"
    /\ ~Empty(metadata_queue)
    /\ spc' = [spc EXCEPT ![w] = "get"]
    /\ UNCHANGED <<videos_to_be_processed, has_failed_metadata, yt_metadata,
                   is_quota_exceeded, metadata_queue, metadata_unfinished,
                   shutdown_event, rpc, epc, video_ids, last_call, mfpc, margs,
                   idvars>>

\* lines 241-253: get() returns a record, it is upserted and marked done
SaveGet(w) ==
    /\ spc[w] = "get"
    /\ ~Empty(metadata_queue)
    /\ metadata_queue' = Tail(metadata_queue)
    /\ yt_metadata' = insert_update_video_metadata(yt_metadata, Head(metadata_queue))
    /\ metadata_unfinished' = metadata_unfinished - 1
    /\ spc' = [spc EXCEPT ![w] =
                  IF SaveDone(Tail(metadata_queue)) THEN "finished" ELSE "loop"]
    /\ UNCHANGED <<videos_to_be_processed, has_failed_metadata,
                   is_quota_exceeded, shutdown_event, rpc, epc, video_ids,
                   last_call, mfpc, margs, idvars>>

\* lines 245-253: another worker took the record and get() timed out
SaveGetTimeout(w) ==
    /\ spc[w] = "get"
    /\ Empty(metadata_queue)
    /\ spc' = [spc EXCEPT ![w] =
                  IF SaveDone(metadata_queue) THEN "finished" ELSE "loop"]
    /\ UNCHANGED <<videos_to_be_processed, has_failed_metadata, yt_metadata,
                   is_quota_exceeded, metadata_queue, metadata_unfinished,
                   shutdown_event, rpc, epc, video_ids, last_call, mfpc, margs,
                   idvars>>

(***************************************************************************)
(* worker_event_metadata, in runs where no date lacks its events           *)
(***************************************************************************)
\* lines 264-290 with an empty event_metadata_queue: the first pass breaks
EventBreak(w) ==
    /\ epc[w] = "loop"
    /\ epc' = [epc EXCEPT ![w] = "finished"]
    /\ UNCHANGED <<videos_to_be_processed, has_failed_metadata, yt_metadata,
                   is_quota_exceeded, metadata_queue, metadata_unfinished,
                   shutdown_event, rpc, spc, video_ids, last_call, mfpc, margs,
                   idvars>>

(***************************************************************************)
(* Fetcher.fetch of video_metadata.py                                      *)
(***************************************************************************)
\* lines 165-167 and 192-193: num_workers is not a positive integer
MetaFetchInvalid ==
    /\ mfpc = "start"
    /\ invalid_num_workers(margs.num_workers)
    /\ pool_closed' = TRUE
    /\ mfpc' = "returned"
    /\ UNCHANGED <<mdvars_but_mfpc, idwork>>

\* lines 169-180: the seed IDs go to Utils.read_ids_from_cli_argument_insert_db,
\* whose coroutine is never awaited; no date lacks events; the tasks are created
MetaFetchStart ==
    /\ mfpc = "start"
    /\ ~invalid_num_workers(margs.num_workers)
    /\ videos_to_be_processed' =
          read_ids_from_cli_argument_insert_db(videos_to_be_processed,
                                               margs.video_ids, margs.video_id_files)
    /\ rpc' = [w \in Workers |-> "loop"]
    /\ spc' = [w \in SaveWorkers |-> "loop"]
    /\ epc' = [w \in Workers |-> "loop"]
    /\ mfpc' = "gather_retrieve"
    /\ UNCHANGED <<has_failed_metadata, yt_metadata, is_quota_exceeded,
                   metadata_queue, metadata_unfinished, shutdown_event,
                   video_ids, last_call, margs, idvars>>

\* a variant that signals shutdown when the first retrieval worker has finished
shutdown_after_first(retrieve_pcs) == \E w \in Workers : retrieve_pcs[w] = "finished"

\* the shutdown signal after gather() of line 182
set_shutdown_event(retrieve_pcs) == \A w \in Workers : retrieve_pcs[w] = "finished"

\* lines 182-183: gather(*retrieve_metadata_workers) returns, the event is set
MetaFetchShutdown ==
    /\ mfpc = "gather_retrieve"
    /\ set_shutdown_event(rpc)
    /\ shutdown_event' = TRUE
    /\ mfpc' = "gather_save"
    /\ UNCHANGED <<videos_to_be_processed, has_failed_metadata, yt_metadata,
                   is_quota_exceeded, metadata_queue, metadata_unfinished,
                   rpc, spc, epc, video_ids, last_call, margs, idvars>>

\* line 184: gather(*save_metadata_workers, *event_metadata_workers) returns
MetaFetchGather ==
    /\ mfpc = "gather_save"
    /\ \A w \in SaveWorkers : spc[w] = "finished"
    /\ \A w \in Workers : epc[w] = "finished"
    /\ mfpc' = "join"
    /\ UNCHANGED <<mdvars_but_mfpc, idvars>>

\* lines 187-193: metadata_queue.join() returns, the pool is closed
MetaFetchJoin ==
    /\ mfpc = "join"
    /\ metadata_unfinished = 0
    /\ pool_closed' = TRUE
    /\ mfpc' = "returned"
    /\ UNCHANGED <<mdvars_but_mfpc, idwork>>

(***************************************************************************)
(* database.py: the pooled connection and the multi-table metadata write   *)
(***************************************************************************)
\* the most writes of insert_update_video_metadata in a run of the model
MaxWrites == 2
\* the most rows of yt_video_ids in a run of the model
MaxRows == 4

\* the tables insert_update_video_metadata writes, in the order of its statements
TableNames == <<"yt_metadata", "yt_tags", "yt_thumbnails", "yt_localized_info",
                "yt_topic_categories">>
Statements == 1..Len(TableNames)

\* Rows of the five tables: for each video and table the number of the write
\* that wrote the row, 0 for no row.
NoRows == [r \in VideoIds \X Statements |-> 0]

\* no call of insert_update_video_metadata is running
NoUpsert == [video |-> "", version |-> 0, next |-> 0, fail_at |-> 0, error |-> ""]

\* The failures of one call: none (fail_at = 0); psycopg2.Error raised by
\* statement fail_at or by commit() (fail_at = 6); or an exception that is not a
\* psycopg2.Error, raised while a statement's parameters are built (a missing or
\* malformed entry of the metadata dictionary).
Failures ==
    {[fail_at |-> 0, error |-> ""]}
    \cup {[fail_at |-> n, error |-> "psycopg2.Error"] : n \in 1..(Len(TableNames) + 1)}
    \cup {[fail_at |-> n, error |-> "KeyError"] : n \in Statements}

\* conn.commit(): the rows of the transaction become visible
commit(visible, pending) ==
    [r \in DOMAIN visible |-> IF pending[r] # 0 THEN pending[r] ELSE visible[r]]

\* conn.rollback()
rollback(pending) == NoRows

\* a variant of putconn that returns the connection as it is
putconn_as_is(pending) == pending

\* connection_pool.putconn(conn) of get_db_connection's finally block: psycopg2's
\* pool rolls back a connection that is in a transaction (or closes it) before
\* it keeps it
putconn(pending) == rollback(pending)

\* lines 286-287: getconn() and the cursor
UpsertBegin(v, f) ==
    /\ upsert = NoUpsert
    /\ writes < MaxWrites
    /\ writes' = writes + 1
    /\ upsert' = [video |-> v, version |-> writes + 1, next |-> 1,
                  fail_at |-> f.fail_at, error |-> f.error]
    /\ UNCHANGED <<tables, txn, aborted, video_id_rows, conflicts, besides_store>>

\* lines 385-409: one of the five groups of INSERT statements is executed
UpsertExecute ==
    /\ upsert # NoUpsert
    /\ upsert.next \in Statements
    /\ upsert.next # upsert.fail_at
    /\ txn' = [txn EXCEPT ![<<upsert.video, upsert.next>>] = upsert.version]
    /\ upsert' = [upsert EXCEPT !.next = @ + 1]
    /\ UNCHANGED <<tables, writes, aborted, video_id_rows, conflicts, besides_store>>

\* line 411 and get_db_connection's finally block: commit, putconn
UpsertCommit ==
    /\ upsert # NoUpsert
    /\ upsert.next = Len(TableNames) + 1
    /\ upsert.fail_at # upsert.next
    /\ tables' = commit(tables, txn)
    /\ txn' = putconn(NoRows)
    /\ upsert' = NoUpsert
    /\ UNCHANGED <<writes, aborted, video_id_rows, conflicts, besides_store>>

\* lines 412-414: a psycopg2.Error is logged and the transaction rolled back;
\* any other exception leaves the function, through get_db_connection's finally
UpsertError ==
    /\ upsert # NoUpsert
    /\ upsert.next = upsert.fail_at
    /\ txn' = putconn(IF upsert.error = "psycopg2.Error" THEN rollback(txn) ELSE txn)
    /\ aborted' = aborted \cup {[version |-> upsert.version, fail_at |-> upsert.fail_at,
                                 error |-> upsert.error]}
    /\ upsert' = NoUpsert
    /\ UNCHANGED <<tables, writes, video_id_rows, conflicts, besides_store>>

(***************************************************************************)
(* database.py: insert_video_ids on the rows of yt_video_ids               *)
(***************************************************************************)
\* a variant of the statement without its ON CONFLICT clause
insert_plain(rows, video_id) == Append(rows, video_id)

\* INSERT INTO yt_video_ids (video_id) VALUES (%s) ON CONFLICT (video_id) DO NOTHING
insert_on_conflict_do_nothing(rows, video_id) ==
    IF video_id \in Range(rows) THEN rows ELSE Append(rows, video_id)

\* cursor.executemany: the statement is executed for each ID of the batch in turn
RECURSIVE executemany_insert(_, _)
executemany_insert(rows, video_ids_batch) ==
    IF video_ids_batch = <<>> THEN rows
    ELSE executemany_insert(
             insert_on_conflict_do_nothing(rows, Head(video_ids_batch)),
             Tail(video_ids_batch))

\* the batches a video worker inserts: one or two IDs, the same ID twice included
Batches == {<<a>> : a \in VideoIds} \cup {<<a, b>> : a, b \in VideoIds}

\* DatabaseOperations.insert_video_ids, between two statements of no other call:
\* the batch is inserted and committed on the pooled connection
InsertVideoIds(video_ids_batch) ==
    /\ upsert = NoUpsert
    /\ Len(video_id_rows) + Len(video_ids_batch) <= MaxRows
    /\ video_id_rows' = executemany_insert(video_id_rows, video_ids_batch)
    /\ conflicts' = Len(video_ids_batch) - (Len(video_id_rows') - Len(video_id_rows))
    /\ tables' = commit(tables, txn)
    /\ txn' = putconn(NoRows)
    /\ UNCHANGED <<upsert, writes, aborted, besides_store>>

\* a task that is in no method of DatabaseOperations
NoDbCall == [method |-> "", pc |-> "idle", conn |-> 0, exit |-> ""]

\* the module globals of the earlier revision as the import leaves them
\* (src/yt-dlp-async/video_id.py lines 26-38): no Event set, the counters 0
EarlierIdle ==
    /\ queue_done = [name \in QueueNames |-> FALSE]
    /\ processing_tasks_counter = [name \in QueueNames |-> 0]

\* the storage is not used
StoreIdle ==
    /\ EarlierIdle
    /\ tables = NoRows
    /\ txn = NoRows
    /\ upsert = NoUpsert
    /\ writes = 0
    /\ aborted = {}
    /\ video_id_rows = <<>>
    /\ conflicts = 0
    /\ pool_used = {}
    /\ db_call = [w \in Workers |-> NoDbCall]

(***************************************************************************)
(* utils.py: Utils.extract_teams                                           *)
(* A text is the sequence of its words, which single spaces separate.      *)
(***************************************************************************)
MaxLen == 5

\* the words of the titles
Words == {"Yankees", "angels", "red", "sox", "at", "vs", "live"}

\* str.lower() on a word
Lower(word) ==
    CASE word = "Yankees" -> "yankees"
      [] word = "Red" -> "red"
      [] word = "Sox" -> "sox"
      [] word = "Unknown" -> "unknown"
      [] word = "Team" -> "team"
      [] word = "NYY" -> "nyy"
      [] word = "BOS" -> "bos"
      [] word = "LAA" -> "laa"
      [] word = "AL" -> "al"
      [] word = "NL" -> "nl"
      [] OTHER -> word

\* normalized_text = text.lower()
lower(words) == [i \in 1..Len(words) |-> Lower(words[i])]

\* Metadata.team_abbreviations, some of its keys
team_abbreviations ==
    { [team |-> <<"angels">>, code |-> "ana"],
      [team |-> <<"laa">>, code |-> "ana"],
      [team |-> <<"boston", "red", "sox">>, code |-> "bos"],
      [team |-> <<"red", "sox">>, code |-> "bos"],
      [team |-> <<"bos">>, code |-> "bos"],
      [team |-> <<"yankees">>, code |-> "nya"],
      [team |-> <<"nyy">>, code |-> "nya"] }

\* the list of line 337: ' at ', ' @ ', ' vs ', ' vs. '
Delimiters == <<"at", "@", "vs", "vs.">>

\* the places of a delimiter from a word on: the delimiter has a space on
\* either side, so it is neither the first nor the last word
places(words, delimiter, from) ==
    {i \in from..(Len(words) - 1) : i > 1 /\ words[i] = delimiter}

First(S) == CHOOSE i \in S : \A j \in S : i <= j

\* normalized_text.split(delimiter), its first two parts: str.split takes the
\* occurrences from the left, and an occurrence uses up its two spaces
split(words, delimiter) ==
    LET i == First(places(words, delimiter, 1))
        later == places(words, delimiter, i + 2)
        j == IF later = {} THEN Len(words) + 1 ELSE First(later)
    IN <<SubSeq(words, 1, i - 1), SubSeq(words, i + 1, j - 1)>>

\* re.search(r'\b' + re.escape(team) + r'\b', part)
search(team, part) ==
    \E k \in 0..(Len(part) - Len(team)) : SubSeq(part, k + 1, k + Len(team)) = team

\* find_team_candidates(part, candidates_set)
find_team_candidates(part) ==
    {t.code : t \in {t \in team_abbreviations : search(t.team, part)}}

\* next(iter(candidates)) of a set of one
only(candidates) == CHOOSE code \in candidates : TRUE

\* a variant of the branches that knows the case of one candidate on each side only
decide_pair_only(home_team_candidates, away_team_candidates) ==
    IF Cardinality(home_team_candidates) = 1 /\ Cardinality(away_team_candidates) = 1
    THEN <<only(home_team_candidates), only(away_team_candidates)>>
    ELSE <<"unknown", "unknown">>

\* lines 362-403: the pair returned at one delimiter, <<>> when no branch
\* returns
decide(home_team_candidates, away_team_candidates) ==
    LET h == Cardinality(home_team_candidates)
        a == Cardinality(away_team_candidates)
    IN IF a = 1 /\ h = 1
       THEN <<only(home_team_candidates), only(away_team_candidates)>>
       ELSE IF a = 1 /\ h = 0
       THEN <<"unknown", only(away_team_candidates)>>
       ELSE IF h = 1 /\ a = 0
       THEN <<only(home_team_candidates), "unknown">>
       ELSE IF a = 1 /\ h > 1
       THEN LET rest == home_team_candidates \ away_team_candidates
            IN IF Cardinality(rest) = 1
               THEN <<only(rest), only(away_team_candidates)>>
               ELSE IF Cardinality(rest) > 1
               THEN <<"unknown", only(away_team_candidates)>>
               ELSE <<>>
       ELSE IF h = 1 /\ a > 1
       THEN LET rest == away_team_candidates \ home_team_candidates
            IN IF Cardinality(rest) = 1
               THEN <<only(home_team_candidates), only(rest)>>
               ELSE IF Cardinality(rest) > 1
               THEN <<only(home_team_candidates), "unknown">>
               ELSE <<>>
       ELSE IF a > 1 /\ h > 1
       THEN <<"unknown", "unknown">>
       ELSE <<>>

\* the loop of line 337 from the k-th delimiter on; scanned lists the
\* delimiters whose two sides were searched for candidates
RECURSIVE extract_teams_from(_, _)
extract_teams_from(words, k) ==
    IF k > Len(Delimiters)
    THEN [home |-> "unknown", away |-> "unknown", scanned |-> <<>>]
    ELSE IF places(words, Delimiters[k], 1) = {}
    THEN extract_teams_from(words, k + 1)
    ELSE LET parts == split(words, Delimiters[k])
             pair == decide(find_team_candidates(parts[2]),
                            find_team_candidates(parts[1]))
         IN IF pair # <<>>
            THEN [home |-> pair[1], away |-> pair[2],
                  scanned |-> <<Delimiters[k]>>]
            ELSE LET later == extract_teams_from(words, k + 1)
                 IN [later EXCEPT !.scanned = <<Delimiters[k]>> \o @]

\* Utils.extract_teams(text)
extract_teams(words) == extract_teams_from(lower(words), 1)

\* the texts up to MaxLen words
Texts == UNION {[1..n -> Words] : n \in 0..MaxLen}

\* no call of extract_teams was made
NoTeams == [home |-> "", away |-> "", scanned |-> <<>>]

\* a call of Utils.extract_teams on a title
ExtractTeams ==
    /\ teams = NoTeams
    /\ teams' = extract_teams(text)
    /\ UNCHANGED <<text, extracted, fetcher_date, besides_text>>


(***************************************************************************)
(* e_events.py: EventFetcher, and the rows of e_events (database.py)       *)
(***************************************************************************)
\* the days of the schedule; a time is a day and an hour
Days == {1, 2}

\* hours between UTC and America/New_York in the baseball season
UtcOffset == 4

\* utc_time.astimezone(pytz.timezone('America/New_York'))
ny_time(date) ==
    IF date.hour >= UtcOffset
    THEN [day |-> date.day, hour |-> date.hour - UtcOffset]
    ELSE [day |-> date.day - 1, hour |-> date.hour + 24 - UtcOffset]

\* events the schedule API knows, as the fields process_event reads; "" and 0
\* stand for a missing field. Two games of the same teams on one New York day,
\* a spring-training game (season type 1), an event without short name, an
\* all-star game, and the first game again after it was moved to day 2.
ScheduleEvents ==
    << [id |-> "e1", date |-> [day |-> 1, hour |-> 17], shortName |-> "BOS @ NYY",
        season_type |-> 2, home |-> "NYY", away |-> "BOS"],
       [id |-> "e2", date |-> [day |-> 2, hour |-> 2], shortName |-> "BOS @ NYY",
        season_type |-> 2, home |-> "NYY", away |-> "BOS"],
       [id |-> "e3", date |-> [day |-> 1, hour |-> 17], shortName |-> "LAA @ BOS",
        season_type |-> 1, home |-> "BOS", away |-> "LAA"],
       [id |-> "e4", date |-> [day |-> 1, hour |-> 23], shortName |-> "",
        season_type |-> 2, home |-> "NYY", away |-> "LAA"],
       [id |-> "e5", date |-> [day |-> 2, hour |-> 23], shortName |-> "AL @ NL",
        season_type |-> 3, home |-> "NL", away |-> "AL"],
       [id |-> "e1", date |-> [day |-> 2, hour |-> 17], shortName |-> "BOS @ NYY 2",
        season_type |-> 2, home |-> "NYY", away |-> "BOS"] >>

\* the elements of a sequence at the places of a set, in their order
RECURSIVE Pick(_, _)
Pick(listing, S) ==
    IF listing = <<>> THEN <<>>
    ELSE LET rest == Pick(Tail(listing), {i - 1 : i \in S \ {1}})
         IN IF 1 \in S THEN <<Head(listing)>> \o rest ELSE rest

\* the answers of GET ...?dates=<date_stub>: no answer (fetch_data returns None),
\* or any events of that New York day
ScheduleResponses(date_stub) ==
    LET of_day == SelectSeq(ScheduleEvents, LAMBDA e : ny_time(e.date).day = date_stub)
    IN {[ok |-> FALSE, events |-> <<>>]}
       \cup {[ok |-> TRUE, events |-> Pick(of_day, S)] : S \in SUBSET (1..Len(of_day))}

\* the test of the earlier revision (src/yt-dlp-async/e_events.py, line 57):
\* event_id and date and short_name and season_type and season_type > 1
qualifies_earlier(event) ==
    /\ event.id # ""
    /\ event.date.day # 0
    /\ event.shortName # ""
    /\ event.season_type > 1

\* line 90: all([event_id, date, short_name, season_type, home_team, away_team])
qualifies(event) ==
    /\ event.id # ""
    /\ event.date.day # 0
    /\ event.shortName # ""
    /\ event.season_type # 0
    /\ event.home # ""
    /\ event.away # ""

\* EventFetcher.process_event: the row of an event that qualifies
process_event(event) ==
    LET normalized == extract_teams(<<event.away, "@", event.home>>)
    IN [event_id |-> event.id, date |-> ny_time(event.date),
        type |-> event.season_type, short_name |-> event.shortName,
        home_team |-> event.home, away_team |-> event.away,
        home_team_normalized |-> normalized.home,
        away_team_normalized |-> normalized.away]

\* EventFetcher.extract_events
extract_events(events) ==
    LET kept == SelectSeq(events, qualifies)
    IN [i \in 1..Len(kept) |-> process_event(kept[i])]

\* a variant of the insert without its conflict clause
insert_event_plain(rows, record) == Append(rows, record)

\* INSERT INTO e_events ... ON CONFLICT (event_id) DO NOTHING, one record
insert_event(rows, record) ==
    IF \E i \in 1..Len(rows) : rows[i].event_id = record.event_id
    THEN rows
    ELSE Append(rows, record)

\* DatabaseOperations.save_events: executemany over the records, then commit
RECURSIVE save_events(_, _)
save_events(rows, records) ==
    IF records = <<>> THEN rows
    ELSE save_events(insert_event(rows, Head(records)), Tail(records))

\* a variant of the check that never finds a row
check_finds_nothing(rows, date_stub) == FALSE

\* DatabaseOperations.check_if_existing_e_events_by_date: COUNT(1) > 0 over the
\* rows of that New York day
check_if_existing_e_events_by_date(rows, date_stub) ==
    \E i \in 1..Len(rows) : rows[i].date.day = date_stub

\* no run of EventFetcher was made
NoRun == [date_stub |-> 0, already_loaded |-> FALSE, check_failed |-> FALSE,
          requested |-> FALSE, saved |-> <<>>]

\* EventFetcher.run(date_stub): setup, then fetch, extract and save unless the
\* date is already loaded. Every call in it is blocking, so the run is one step.
\* The check's query may fail (psycopg2.Error), which line 513 answers False.
EventRun(date_stub, check_ok, data) ==
    LET already_loaded ==
            check_ok /\ check_if_existing_e_events_by_date(e_events, date_stub)
        events_data == IF data.ok THEN extract_events(data.events) ELSE <<>>
    IN /\ IF already_loaded
          THEN /\ e_events' = e_events
               /\ event_run' = [date_stub |-> date_stub, already_loaded |-> TRUE,
                                check_failed |-> FALSE,
                                requested |-> FALSE, saved |-> <<>>]
          ELSE /\ e_events' = save_events(e_events, events_data)
               /\ event_run' = [date_stub |-> date_stub, already_loaded |-> FALSE,
                                check_failed |-> ~check_ok,
                                requested |-> TRUE, saved |-> events_data]
       /\ event_runs' = event_runs
       /\ UNCHANGED besides_events

\* two processes of the command that run EventFetcher on one database
Runners == {1, 2}

\* a process that has not called run, and the rows and the answer it has not seen
NotRun == [pc |-> "idle", date_stub |-> 0, already_loaded |-> FALSE,
           check_failed |-> FALSE, seen |-> <<>>,
           data |-> [ok |-> FALSE, events |-> <<>>]]

\* run, lines 162-164: setup() asks whether the date is loaded; the rows it sees
\* are the committed ones
RunSetup(r, date_stub, check_ok) ==
    LET already_loaded ==
            check_ok /\ check_if_existing_e_events_by_date(e_events, date_stub)
    IN /\ event_runs[r].pc = "idle"
       /\ event_runs' = [event_runs EXCEPT ![r] =
              [pc |-> IF already_loaded THEN "done" ELSE "fetch",
               date_stub |-> date_stub, already_loaded |-> already_loaded,
               check_failed |-> ~check_ok, seen |-> e_events,
               data |-> NotRun.data]]
       /\ UNCHANGED <<e_events, event_run, besides_events>>

\* run, lines 165-166 and 174-175: fetch_data() returns the answer or None
RunFetch(r, data) ==
    /\ event_runs[r].pc = "fetch"
    /\ event_runs' = [event_runs EXCEPT ![r].data = data,
                                        ![r].pc = IF data.ok THEN "save" ELSE "done"]
    /\ UNCHANGED <<e_events, event_run, besides_events>>

\* run, lines 167-173: the events are extracted and saved in one transaction
\* (database.py 469-484); an insert that meets the uncommitted row of another
\* transaction waits for its commit and then does nothing
RunSave(r) ==
    /\ event_runs[r].pc = "save"
    /\ e_events' = save_events(e_events, extract_events(event_runs[r].data.events))
    /\ event_runs' = [event_runs EXCEPT ![r].pc = "done"]
    /\ UNCHANGED <<event_run, besides_events>>

\* the values of a team in a lookup: codes, the sentinel of the lookups
\* ('Unknown') and the one of Utils.extract_teams ('unknown')
LookupTeams == {"nya", "bos", "ana", "Unknown", "unknown"}

\* the rows the query of get_event_id selects (lines 579-597)
matching(rows, date_obj, home_team, away_team) ==
    IF home_team # "Unknown" /\ away_team # "Unknown"
    THEN {i \in 1..Len(rows) : /\ rows[i].date.day = date_obj
                               /\ rows[i].home_team_normalized = home_team
                               /\ rows[i].away_team_normalized = away_team}
    ELSE IF home_team # "Unknown"
    THEN {i \in 1..Len(rows) : /\ rows[i].date.day = date_obj
                               /\ rows[i].home_team_normalized = home_team}
    ELSE {i \in 1..Len(rows) : /\ rows[i].date.day = date_obj
                               /\ rows[i].away_team_normalized = away_team}

\* DatabaseOperations.get_event_id, the values it may return: None ("") for two
\* unknown sides or no row; else cursor.fetchone(), which is any of the selected
\* rows, the query having no ORDER BY
get_event_id(rows, date_obj, home_team, away_team) ==
    LET selected == IF home_team = "Unknown" /\ away_team = "Unknown"
                    THEN {}
                    ELSE matching(rows, date_obj, home_team, away_team)
    IN IF selected = {} THEN {""} ELSE {rows[i].event_id : i \in selected}

EventsIdle == e_events = <<>> /\ event_run = NoRun /\ event_runs = [r \in Runners |-> NotRun]

(***************************************************************************)
(* utils.py: Utils.extract_date                                            *)
(* Here a text is the sequence of its characters; the name of a month is   *)
(* one element.                                                            *)
(***************************************************************************)
Digits == <<"0", "1", "2", "3", "4", "5", "6", "7", "8", "9">>

IsDigit(c) == \E n \in 1..Len(Digits) : Digits[n] = c

DigitValue(c) == (CHOOSE n \in 1..Len(Digits) : Digits[n] = c) - 1

\* int() of a string of digits
RECURSIVE Value(_)
Value(ds) ==
    IF ds = <<>> THEN 0
    ELSE Value(SubSeq(ds, 1, Len(ds) - 1)) * 10 + DigitValue(ds[Len(ds)])

\* the number of digits from a place on
RECURSIVE run(_, _)
run(chars, pos) ==
    IF pos <= Len(chars) /\ IsDigit(chars[pos]) THEN 1 + run(chars, pos + 1) ELSE 0

\* the number of spaces from a place on (\s+)
RECURSIVE spaces(_, _)
spaces(chars, pos) ==
    IF pos <= Len(chars) /\ chars[pos] = " " THEN 1 + spaces(chars, pos + 1) ELSE 0

\* the pairs of regular expression and format, in the order of lines 181-289:
\* for \d{lo,hi} sep \d{lo,hi} sep \d{lo,hi} the separator and the bounds, for
\* (names)\s+\d{1,2},\s+\d{4} the names; then the fields of the format
DatePatterns ==
    << [sep |-> ".", lo |-> <<1, 1, 4>>, hi |-> <<2, 2, 4>>, names |-> {},
        format |-> <<"m", "d", "Y">>],
       [sep |-> ".", lo |-> <<1, 1, 4>>, hi |-> <<2, 2, 4>>, names |-> {},
        format |-> <<"d", "m", "Y">>],
       [sep |-> ".", lo |-> <<1, 1, 2>>, hi |-> <<2, 2, 2>>, names |-> {},
        format |-> <<"m", "d", "y">>],
       [sep |-> "/", lo |-> <<4, 1, 1>>, hi |-> <<4, 2, 2>>, names |-> {},
        format |-> <<"Y", "m", "d">>],
       [sep |-> "/", lo |-> <<1, 1, 2>>, hi |-> <<2, 2, 2>>, names |-> {},
        format |-> <<"m", "d", "y">>],
       [sep |-> "-", lo |-> <<4, 1, 1>>, hi |-> <<4, 2, 22>>, names |-> {},
        format |-> <<"Y", "m", "d">>],
       [sep |-> "-", lo |-> <<1, 1, 2>>, hi |-> <<2, 2, 2>>, names |-> {},
        format |-> <<"m", "d", "y">>],
       [sep |-> "-", lo |-> <<1, 1, 2>>, hi |-> <<2, 2, 2>>, names |-> {},
        format |-> <<"d", "m", "y">>],
       [sep |-> ",", lo |-> <<1, 4>>, hi |-> <<2, 4>>,
        names |-> {"February", "May", "July"},
        format |-> <<"B", "d", "Y">>],
       [sep |-> ",", lo |-> <<1, 4>>, hi |-> <<2, 4>>,
        names |-> {"Feb", "May", "Jul", "Sep", "Sept"},
        format |-> <<"b", "d", "Y">>] >>

\* a variant of the order that reads a dotted date as DD.MM.YYYY first
DatePatternsDayFirst ==
    <<DatePatterns[2], DatePatterns[1]>> \o SubSeq(DatePatterns, 3, Len(DatePatterns))

\* the match of a numeric expression that starts at a place: its three groups,
\* or <<>>. The first two groups end at their separator; the last one is greedy.
numeric_at(chars, pos, p) ==
    LET k1 == run(chars, pos)
        k2 == run(chars, pos + k1 + 1)
        r3 == run(chars, pos + k1 + k2 + 2)
        k3 == IF r3 > p.hi[3] THEN p.hi[3] ELSE r3
    IN IF /\ k1 >= p.lo[1] /\ k1 <= p.hi[1]
          /\ pos + k1 <= Len(chars) /\ chars[pos + k1] = p.sep
          /\ k2 >= p.lo[2] /\ k2 <= p.hi[2]
          /\ pos + k1 + k2 + 1 <= Len(chars) /\ chars[pos + k1 + k2 + 1] = p.sep
          /\ k3 >= p.lo[3]
       THEN << SubSeq(chars, pos, pos + k1 - 1),
               SubSeq(chars, pos + k1 + 1, pos + k1 + k2),
               SubSeq(chars, pos + k1 + k2 + 2, pos + k1 + k2 + 1 + k3) >>
       ELSE <<>>

\* the match of a textual expression that starts at a place: the name, the day
\* and the year, or <<>>
textual_at(chars, pos, p) ==
    LET s1 == spaces(chars, pos + 1)
        k1 == run(chars, pos + 1 + s1)
        comma == pos + 1 + s1 + k1
        s2 == spaces(chars, comma + 1)
        r2 == run(chars, comma + 1 + s2)
    IN IF /\ chars[pos] \in p.names
          /\ s1 >= 1
          /\ k1 >= p.lo[1] /\ k1 <= p.hi[1]
          /\ comma <= Len(chars) /\ chars[comma] = p.sep
          /\ s2 >= 1
          /\ r2 >= p.lo[2]
       THEN << <<chars[pos]>>,
               SubSeq(chars, pos + 1 + s1, comma - 1),
               SubSeq(chars, comma + 1 + s2, comma + s2 + p.hi[2]) >>
       ELSE <<>>

match_at(chars, pos, p) ==
    IF p.names = {} THEN numeric_at(chars, pos, p) ELSE textual_at(chars, pos, p)

\* re.search(pattern, text): the match at the first place that has one, or <<>>
re_search(chars, p) ==
    LET found == {pos \in 1..Len(chars) : match_at(chars, pos, p) # <<>>}
    IN IF found = {} THEN <<>> ELSE match_at(chars, First(found), p)

\* the months strptime knows by %B and by %b
MonthNames ==
    [B |-> [February |-> 2, May |-> 5, July |-> 7],
     b |-> [Feb |-> 2, May |-> 5, Jul |-> 7, Sep |-> 9]]

DaysInMonth(year, month) ==
    IF month = 2
    THEN IF year % 4 = 0 /\ (year % 100 # 0 \/ year % 400 = 0) THEN 29 ELSE 28
    ELSE IF month \in {4, 6, 9, 11} THEN 30 ELSE 31

NoDate == [year |-> 0, month |-> 0, day |-> 0]

\* the value of one field of a format, 0 where strptime rejects the group
field(group, directive) ==
    CASE directive \in {"m", "d"} ->
            IF Len(group) <= 2 THEN Value(group) ELSE 0
      [] directive = "Y" -> Value(group)
      [] directive = "y" ->
            IF Value(group) <= 68 THEN 2000 + Value(group) ELSE 1900 + Value(group)
      [] directive \in {"B", "b"} ->
            IF group[1] \in DOMAIN MonthNames[directive]
            THEN MonthNames[directive][group[1]] ELSE 0

\* datetime.strptime(date_str, format) on the groups of a match: the date, or
\* NoDate for ValueError
strptime(groups, format) ==
    LET at(directives) ==
            LET i == CHOOSE i \in 1..Len(format) : format[i] \in directives
            IN field(groups[i], format[i])
        year == at({"Y", "y"})
        month == at({"m", "B", "b"})
        day == at({"d"})
    IN IF /\ year >= 1
          /\ month >= 1 /\ month <= 12
          /\ day >= 1 /\ day <= DaysInMonth(year, month)
       THEN [year |-> year, month |-> month, day |-> day]
       ELSE NoDate

\* the blocks of lines 181-289 from the k-th on: the date of the first
\* expression that matches and whose match strptime accepts, with the number
\* of that block
RECURSIVE extract_date_from(_, _, _)
extract_date_from(chars, patterns, k) ==
    IF k > Len(patterns)
    THEN [date |-> NoDate, by |-> 0]
    ELSE LET date_match == re_search(chars, patterns[k])
             parsed == IF date_match = <<>> THEN NoDate
                       ELSE strptime(date_match, patterns[k].format)
         IN IF parsed # NoDate
            THEN [date |-> parsed, by |-> k]
            ELSE extract_date_from(chars, patterns, k + 1)

\* a variant of extract_date with the first two blocks exchanged
extract_date_day_first(chars) == extract_date_from(chars, DatePatternsDayFirst, 1)

\* Utils.extract_date(text): the date, and the number of the block that
\* returned it
extract_date(chars) == extract_date_from(chars, DatePatterns, 1)

\* groups of digits, separators and textual dates of which the texts are made
DigitGroups ==
    { <<"7">>, <<"0", "4">>, <<"1", "3">>, <<"2", "9">>, <<"0", "2">>,
      <<"2", "0", "2", "1">>, <<"2", "0", "1", "2">> }

Separators == {".", "/", "-"}

TextualDates ==
    { <<>>,
      <<" ", "July", " ", "5", ",", " ", "2", "0", "2", "1">>,
      <<" ", "Jul", " ", " ", "0", "5", ",", " ", "2", "0", "2", "1", "9">>,
      <<" ", "Sept", " ", "5", ",", " ", "2", "0", "2", "1">>,
      <<" ", "February", " ", "2", "9", ",", " ", "2", "0", "2", "1", " ", "May",
        " ", "5", ",", " ", "2", "0", "1", "2">> }

NumericDates ==
    {<<>>} \cup {a \o <<s>> \o b \o <<s>> \o c :
                    a \in DigitGroups, b \in DigitGroups, c \in DigitGroups,
                    s \in Separators}

\* the texts handed to extract_date: a numeric date or none, with or without a
\* digit before and after it, and a textual date or none before or after it
DateTexts ==
    {<<"o", "n", " ">> \o pre \o n \o post \o t :
        pre \in {<<>>, <<"1">>}, n \in NumericDates, post \in {<<>>, <<"5">>},
        t \in TextualDates}
    \cup {t \o <<" ">> \o n : n \in NumericDates, t \in TextualDates}

NoExtract == [date |-> NoDate, by |-> -1]

\* no call of Fetcher.extract_date was made
NoFetched == [date |-> NoDate, raised |-> FALSE, by |-> -1, rest |-> <<>>]

\* a call of Utils.extract_date on a text
ExtractDate ==
    /\ extracted = NoExtract
    /\ extracted' = extract_date(text)
    /\ UNCHANGED <<text, teams, fetcher_date, besides_text>>

TextIdle ==
    /\ text = <<>> /\ teams = NoTeams /\ extracted = NoExtract
    /\ fetcher_date = NoFetched

(***************************************************************************)
(* utils.py: Utils.extract_video_info_filepath, and the file name of       *)
(* video_download.py. A file name is the sequence of its characters.       *)
(***************************************************************************)
MaxIdLen == 4

\* characters of a video ID: IDs are made of letters, digits, '_' and '-'
IdChars == {"a", "y", "t", "-"}

VideoIdStrings == UNION {[1..n -> IdChars] : n \in 1..MaxIdLen}

\* format IDs as yt-dlp gives them
FormatIds == {<<"1", "4", "0">>, <<"2", "5", "1", "-", "d", "r", "c">>}

\* e_event_id: none, or an ID of the schedule
EventIds == {<<>>, <<"4", "0", "1">>}

\* str.startswith
startswith(chars, prefix) ==
    Len(chars) >= Len(prefix) /\ SubSeq(chars, 1, Len(prefix)) = prefix

\* str.split(sep): the occurrences of sep are taken from the left
RECURSIVE str_split(_, _)
str_split(chars, sep) ==
    LET at == {i \in 1..(Len(chars) - Len(sep) + 1) :
                  SubSeq(chars, i, i + Len(sep) - 1) = sep}
    IN IF at = {} THEN <<chars>>
       ELSE <<SubSeq(chars, 1, First(at) - 1)>>
            \o str_split(SubSeq(chars, First(at) + Len(sep), Len(chars)), sep)

\* line 241: the end of file_name, after the teams, the date and the bracketed
\* fields: {fid-<format_id>}, {e-<e_event_id>} if there is one, {yt-<video_id>};
\* postprocess_hook appends the extension
file_name(format_id, e_event_id, video_id) ==
    LET e_id == IF e_event_id # <<>>
                THEN <<"{", "e", "-">> \o e_event_id \o <<"}">>
                ELSE <<>>
    IN <<"[", "e", "n", "]">>
       \o <<"{", "f", "i", "d", "-">> \o format_id \o <<"}">>
       \o e_id
       \o <<"{", "y", "t", "-">> \o video_id \o <<"}">>
       \o <<".", "m", "4", "a">>

\* Python's None, which is no string
None == <<"None">>

\* part.split(prefix)[1].split('}')[0] for a part that starts with the prefix
between(part, prefix) == str_split(str_split(part, prefix)[2], <<"}">>)[1]

\* the loop of lines 426-433 from the k-th part on
RECURSIVE scan_parts(_, _, _, _)
scan_parts(file_name_parts, k, video_id, a_format_id) ==
    IF k > Len(file_name_parts)
    THEN <<video_id, a_format_id>>
    ELSE LET part == file_name_parts[k]
             v == IF startswith(part, <<"y", "t", "-">>)
                  THEN between(part, <<"y", "t", "-">>) ELSE video_id
             f == IF startswith(part, <<"f", "i", "d", "-">>)
                  THEN between(part, <<"f", "i", "d", "-">>) ELSE a_format_id
         IN IF v \notin {None, <<>>} /\ f \notin {None, <<>>}
            THEN <<v, f>>
            ELSE scan_parts(file_name_parts, k + 1, v, f)

\* Utils.extract_video_info_filepath(filepath)
extract_video_info_filepath(filepath) ==
    scan_parts(str_split(filepath, <<"{">>), 1, None, None)

\* the files the naming step names
FileNames ==
    {[video_id |-> v, format_id |-> f, e_event_id |-> e,
      filepath |-> file_name(f, e, v)] :
        v \in VideoIdStrings, f \in FormatIds, e \in EventIds}

NoFile == [video_id |-> <<>>, format_id |-> <<>>, e_event_id |-> <<>>,
           filepath |-> <<>>]

\* a call of Utils.extract_video_info_filepath on the name of a file
ExtractVideoInfo ==
    /\ file_info = <<>>
    /\ file_info' = extract_video_info_filepath(file.filepath)
    /\ UNCHANGED <<file, info_dict, named, besides_files>>

(***************************************************************************)
(* video_download.py: Fetcher.determine_path_and_name                      *)
(***************************************************************************)
\* the methods of the classes the naming step calls methods of
DatabaseOperationsMethods ==
    {"get_db_connection", "close_connection_pool", "execute_query",
     "get_count_videos_to_be_processed", "get_video_ids_without_metadata",
     "set_video_id_failed_metadata_true", "insert_video_ids",
     "insert_video_ids_bulk", "insert_update_video_metadata",
     "get_dates_no_event_metadata", "save_events",
     "check_if_existing_e_events_by_date", "get_e_events_team_info",
     "get_event_id", "update_audio_file", "get_video_ids_without_files"}

FetcherMethods ==
    {"fetch", "download_audio", "progress_hook", "postprocess_hook",
     "determine_path_and_name", "extract_date", "format_duration"}

\* lines 237-239: the directory, as its components under the root
directory(home_team, away_team, path_date) ==
    IF home_team = "Unknown" \/ away_team = "Unknown"
    THEN <<"unknown_teams", path_date>>
    ELSE <<path_date>>

\* DatabaseOperations.get_e_events_team_info, the values it may return: the pair
\* of None and the team of any row of that day whose raw opposing abbreviation
\* is the given one, 'Unknown' without such a row
get_e_events_team_info(rows, date_obj, opposing_team, is_home_unknown) ==
    LET selected ==
            {i \in 1..Len(rows) :
                /\ rows[i].date.day = date_obj
                /\ opposing_team = IF is_home_unknown THEN rows[i].away_team
                                                      ELSE rows[i].home_team}
    IN IF selected = {} THEN {<<None, "Unknown">>}
       ELSE {<<None, IF is_home_unknown THEN rows[i].home_team_normalized
                                        ELSE rows[i].away_team_normalized>> :
                i \in selected}

NoName == [error |-> "", line |-> 0, home_team |-> "", away_team |-> "",
           path |-> <<>>]

\* Fetcher.determine_path_and_name(info_dict), the values it may return or the
\* exception it raises. date_obj is what self.extract_date found in the title or
\* the description, 0 for none.
determine_path_and_name(info, rows) ==
    LET path_date == IF info.date_obj = 0 THEN "unknown_date" ELSE "date"
        of_title == extract_teams(info.title)
        teams_found ==
            IF of_title.home = "Unknown" /\ of_title.away = "Unknown"
            THEN extract_teams(info.description)
            ELSE of_title
        homes ==
            IF teams_found.home = "Unknown"
            THEN get_e_events_team_info(rows, info.date_obj, teams_found.away, TRUE)
            ELSE {teams_found.home}
        aways ==
            IF teams_found.home # "Unknown" /\ teams_found.away = "Unknown"
            THEN get_e_events_team_info(rows, info.date_obj, teams_found.home, FALSE)
            ELSE {teams_found.away}
    IN IF info.date_obj # 0 /\ "run_event_fetcher" \notin FetcherMethods
       THEN {[NoName EXCEPT !.error = "AttributeError", !.line = 212]}
       ELSE IF "get_e_events_event_id" \notin DatabaseOperationsMethods
       THEN {[NoName EXCEPT !.error = "AttributeError", !.line = 229,
                            !.home_team = home_team, !.away_team = away_team] :
                home_team \in homes, away_team \in aways}
       ELSE {[NoName EXCEPT !.home_team = home_team, !.away_team = away_team,
                            !.path = directory(home_team, away_team, path_date)] :
                home_team \in homes, away_team \in aways}

\* titles of up to three words
Titles == UNION {[1..n -> Words] : n \in 0..3}

NoInfo == [title |-> <<>>, description |-> <<>>, date_obj |-> 0]

\* a call of determine_path_and_name by postprocess_hook, whose handler logs
\* an exception and returns False
DeterminePathAndName ==
    /\ named = NoName
    /\ named' \in determine_path_and_name(info_dict, e_events)
    /\ UNCHANGED <<file, file_info, info_dict, besides_files>>

FilesIdle == file = NoFile /\ file_info = <<>> /\ info_dict = NoInfo /\ named = NoName

(***************************************************************************)
(* The file pipeline (video_file.py): Fetcher.fetch and the download       *)
(* workers.  The suspension points are the subprocess of each download and *)
(* queue.join(); get() of a queue that is not empty does not suspend.      *)
(***************************************************************************)
\* the files of the library: for each video its audio file and its info file,
\* named by determine_path_and_name with the tokens {yt-...} and {fid-...}
LibraryFiles == [video : VideoIds, ext : {"m4a", "json"}]

\* line 85: file.endswith('.m4a')
audio_files(files) == {f \in files : f.ext = "m4a"}

\* VideoFileOperations.identify_video_files, the dictionaries it may pass to
\* update_audio_file as the sets of their keys: line 86 empties the dictionary
\* at every audio file, so it holds the last audio file of os.walk, whose order
\* is not defined; with an empty dictionary update_audio_file is not called
identify_video_files(files) ==
    IF audio_files(files) = {} THEN {{}}
    ELSE {{f.video} : f \in audio_files(files)}

\* DatabaseOperations.update_audio_file, the rows of yt_video_file it may leave:
\* INSERT ... ON CONFLICT (video_id, a_format_id) DO UPDATE for each key, or no
\* change when a statement fails and the transaction is rolled back
update_audio_file(file_rows, video_file) == {file_rows, file_rows \cup video_file}

\* DatabaseOperations.get_video_ids_without_files over the rows of yt_metadata
\* that pass the conditions on tags, title and duration (lines 688-723):
\* LEFT JOIN yt_video_file ... WHERE vf.video_id IS NULL
get_video_ids_without_files(metadata_rows, file_rows) == metadata_rows \ file_rows

\* the orders in which fetchall() may return a set of rows
Orders(S) == {q \in [1..Cardinality(S) -> S] : Range(q) = S}

\* the exit status of the subprocess "poetry run download-audio-file fetch"
Returncodes == {0, 1}

(***************************************************************************)
(* The download of one video (video_download.py), which the subprocess of  *)
(* the file pipeline runs                                                  *)
(***************************************************************************)
\* Fetcher(video_id): the class is a dataclass with slots=True and no field, so
\* its instances have empty __slots__ and no __dict__, and the assignment
\* self.video_id = video_id of line 43 raises AttributeError
Fetcher_init == "AttributeError"

\* the extensions of the files yt-dlp writes for a download (the audio file and
\* the info file of 'writeinfojson')
Extensions == {"m4a", "json"}

\* The dictionaries yt-dlp passes to postprocess_hook for one video: the status,
\* whether info_dict has 'filepath', the title, description and date the name is
\* made of, and the files of the temporary directory that start with the base
\* name of the download.
HookCalls(video_id) ==
    [status : {"started", "finished"}, filepath : BOOLEAN, video_id : {video_id},
     info : {NoInfo, [title |-> <<"Yankees", "at", "red">>, description |-> <<>>,
                      date_obj |-> 1]},
     files : SUBSET Extensions]

\* lines 140-167 of postprocess_hook once the name is determined: the files are
\* moved in the order of os.listdir, which is not defined, and shutil.move may
\* raise; after the move of the audio file line 166 calls
\* DatabaseOperations.insert_video_file, which the class does not have
relocate(d) ==
    {[returned |-> "False", moved |-> some, rows |-> {}] : some \in SUBSET d.files}
    \cup
    IF "m4a" \notin d.files
    THEN {[returned |-> "True", moved |-> d.files, rows |-> {}]}
    ELSE IF "insert_video_file" \in DatabaseOperationsMethods
    THEN {[returned |-> "True", moved |-> d.files, rows |-> {d.video_id}]}
         \cup {[returned |-> "False", moved |-> some \cup {"m4a"},
                rows |-> {d.video_id}] : some \in SUBSET d.files}
    ELSE {[returned |-> "False", moved |-> some \cup {"m4a"}, rows |-> {}] :
             some \in SUBSET d.files}

\* Fetcher.postprocess_hook(d), the values it may return with the files it moved
\* to their destination and the rows of yt_video_file it wrote; an exception of
\* determine_path_and_name is logged at line 170
postprocess_hook(d, event_rows) ==
    IF d.status # "finished"
    THEN {[returned |-> "True", moved |-> {}, rows |-> {}]}
    ELSE IF ~d.filepath
    THEN {[returned |-> "None", moved |-> {}, rows |-> {}]}
    ELSE UNION {IF new.error # ""
                THEN {[returned |-> "False", moved |-> {}, rows |-> {}]}
                ELSE relocate(d) :
                    new \in determine_path_and_name(d.info, event_rows)}

\* a variant of the download that writes the row of a video whose download
\* failed
download_recorded_unmoved(video_id, event_rows) ==
    {[moved |-> {}, rows |-> {video_id}]}

\* What one run of the download subprocess for a video may do: the files it
\* moves to the library and the rows of yt_video_file it writes.  Lines 42-101:
\* the construction of Fetcher raises; otherwise download_audio logs the
\* exceptions of yt-dlp, which calls the hook for every status.
download_audio_file(video_id, event_rows) ==
    IF Fetcher_init # "ok"
    THEN {[moved |-> {}, rows |-> {}]}
    ELSE {[moved |-> {}, rows |-> {}]}
         \cup {[moved |-> r.moved, rows |-> r.rows] :
                  r \in UNION {postprocess_hook(d, event_rows) :
                                  d \in HookCalls(video_id)}}

\* the values of existing_videos_dir: not given, a path that is no directory,
\* the directory of the library
Directories == {"None", "no_directory", "library"}

FileArgs == [existing_videos_dir : Directories,
             num_workers : NumWorkersValues \cup {IntValue(1)}]

NoFileArgs == [existing_videos_dir |-> "None", num_workers |-> IntValue(NumWorkers)]

\* the tasks fetch creates at line 158
FileWorkers(num_workers) == 1..num_workers.value

\* lines 142-144 and 163-164: num_workers is not a positive integer: ValueError
FileFetchInvalid ==
    /\ ffpc = "start"
    /\ invalid_num_workers(fargs.num_workers)
    /\ pool_closed' = TRUE
    /\ ffpc' = "raised"
    /\ UNCHANGED <<video_file_queue, file_unfinished, dpc, video_id_taken, fargs,
                   yt_video_file, library, download_calls, download_errors,
                   besides_download>>

\* lines 146-149 and 163-164: existing_videos_dir is given and is no directory
FileFetchNoDirectory ==
    /\ ffpc = "start"
    /\ ~invalid_num_workers(fargs.num_workers)
    /\ fargs.existing_videos_dir = "no_directory"
    /\ pool_closed' = TRUE
    /\ ffpc' = "returned"
    /\ UNCHANGED <<video_file_queue, file_unfinished, dpc, video_id_taken, fargs,
                   yt_video_file, library, download_calls, download_errors,
                   besides_download>>

\* lines 146-160: the files of the directory are recorded, the videos without a
\* file are selected (no row when the query fails) and put on the queue, the
\* tasks are created, and fetch waits for join()
FileFetchStart ==
    /\ ffpc = "start"
    /\ ~invalid_num_workers(fargs.num_workers)
    /\ fargs.existing_videos_dir # "no_directory"
    /\ \E video_file \in identify_video_files(library) :
       \E file_rows \in update_audio_file(yt_video_file, video_file) :
          /\ yt_video_file' =
                IF fargs.existing_videos_dir = "library" THEN file_rows
                ELSE yt_video_file
          /\ \E video_ids_selected \in
                 Orders(get_video_ids_without_files(yt_metadata, yt_video_file'))
                     \cup {<<>>} :
                /\ video_file_queue' = video_ids_selected
                /\ file_unfinished' = Len(video_ids_selected)
    /\ dpc' = [w \in Workers |->
                  IF w \in FileWorkers(fargs.num_workers) THEN "loop" ELSE "none"]
    /\ ffpc' = "join"
    /\ UNCHANGED <<video_id_taken, fargs, library, download_calls, download_errors,
                   pool_closed, besides_download>>

\* lines 48-62: the queue is not empty: get() returns a video ID and the
\* subprocess of its download is started
DownloadStart(w) ==
    /\ dpc[w] = "loop"
    /\ ~Empty(video_file_queue)
    /\ video_id_taken' = [video_id_taken EXCEPT ![w] = <<Head(video_file_queue)>>]
    /\ video_file_queue' = Tail(video_file_queue)
    /\ download_calls' = download_calls \cup {Head(video_file_queue)}
    /\ dpc' = [dpc EXCEPT ![w] = "download"]
    /\ UNCHANGED <<file_unfinished, ffpc, fargs, yt_video_file, library,
                   download_errors, pool_closed, besides_download>>

\* line 48: the queue is empty: the task returns
DownloadExit(w) ==
    /\ dpc[w] = "loop"
    /\ Empty(video_file_queue)
    /\ dpc' = [dpc EXCEPT ![w] = "finished"]
    /\ UNCHANGED <<video_file_queue, file_unfinished, video_id_taken, ffpc, fargs,
                   yt_video_file, library, download_calls, download_errors,
                   pool_closed, besides_download>>

\* lines 62-77: the subprocess has ended.  With status 0 task_done() is called
\* and the loop goes on.  With another status the error is logged and an
\* Exception raised (lines 65-67); task_done() is called in the finally block of
\* line 69, and the handler of line 76, which is outside the while loop, logs the
\* exception: the task returns.  The subprocess has done what
\* download_audio_file does, whatever its status.
DownloadEnd(w, returncode) ==
    /\ dpc[w] = "download"
    /\ file_unfinished' = file_unfinished - 1
    /\ \E done \in download_audio_file(video_id_taken[w][1], e_events) :
          /\ library' = library \cup
                 {[video |-> video_id_taken[w][1], ext |-> x] : x \in done.moved}
          /\ yt_video_file' = yt_video_file \cup done.rows
    /\ IF returncode = 0
       THEN /\ dpc' = [dpc EXCEPT ![w] = "loop"]
            /\ UNCHANGED download_errors
       ELSE /\ dpc' = [dpc EXCEPT ![w] = "failed"]
            /\ download_errors' = download_errors \cup Range(video_id_taken[w])
    /\ UNCHANGED <<video_file_queue, video_id_taken, ffpc, fargs,
                   download_calls, pool_closed, besides_download>>

\* line 160: join() returns when nothing is unfinished
FileFetchJoin ==
    /\ ffpc = "join"
    /\ file_unfinished = 0
    /\ ffpc' = "gather"
    /\ UNCHANGED <<video_file_queue, file_unfinished, dpc, video_id_taken, fargs,
                   yt_video_file, library, download_calls, download_errors,
                   pool_closed, besides_download>>

\* lines 161-164: gather() returns when every task has returned, then the pool
\* is closed
FileFetchGather ==
    /\ ffpc = "gather"
    /\ \A w \in FileWorkers(fargs.num_workers) : dpc[w] \in {"finished", "failed"}
    /\ pool_closed' = TRUE
    /\ ffpc' = "returned"
    /\ UNCHANGED <<video_file_queue, file_unfinished, dpc, video_id_taken, fargs,
                   yt_video_file, library, download_calls, download_errors,
                   besides_download>>

\* the file pipeline is not run
DownloadIdle ==
    /\ video_file_queue = <<>>
    /\ file_unfinished = 0
    /\ dpc = [w \in Workers |-> "none"]
    /\ video_id_taken = [w \in Workers |-> Unbound]
    /\ ffpc = "idle"
    /\ fargs = NoFileArgs
    /\ yt_video_file = {}
    /\ library = {}
    /\ download_calls = {}
    /\ download_errors = {}

(***************************************************************************)
(* database.py: the connection pool and get_db_connection, as the methods  *)
(* of DatabaseOperations use it.  Here a step is a part of one method: no  *)
(* method awaits or calls another method while it holds a connection, so   *)
(* one method runs at a time.                                              *)
(***************************************************************************)
\* line 46: maxconn of the SimpleConnectionPool
maxconn == 10

\* the methods that open "with DatabaseOperations.get_db_connection() as conn"
PoolUsers == DatabaseOperationsMethods \ {"get_db_connection", "close_connection_pool"}

\* how the block of a method is left: after its last statement, by a return
\* inside the block (also the return of an except clause), or by an exception
\* that leaves the method (the psycopg2.Error that line 74 logs and raises again,
\* or any other)
ExitPaths == {"end", "return", "psycopg2.Error", "Exception"}

\* connection_pool.getconn(): PoolError from a closed or exhausted pool, else a
\* connection that is not in use, marked as used
getconn(used, closed) ==
    IF closed \/ Cardinality(used) = maxconn THEN 0
    ELSE CHOOSE c \in 1..maxconn : c \notin used /\ \A d \in 1..(c - 1) : d \in used

\* a variant of the finally block that returns the connection only when the
\* block was left without an exception
putconn_unless_raised(used, conn, exit) ==
    IF conn # 0 /\ exit \in {"end", "return"} THEN used \ {conn} ELSE used

\* lines 76-78, the finally block of get_db_connection: putconn(conn) if conn,
\* however the block was left
finally_putconn(used, conn, exit) == IF conn # 0 THEN used \ {conn} ELSE used

\* lines 70-72: a method enters its with block: getconn()
DbEnter(w, method) ==
    /\ \A v \in Workers : db_call[v].pc = "idle"
    /\ LET conn == getconn(pool_used, pool_closed)
       IN /\ pool_used' = IF conn = 0 THEN pool_used ELSE pool_used \cup {conn}
          /\ db_call' = [db_call EXCEPT ![w] =
                 [method |-> method, conn |-> conn, exit |-> "",
                  pc |-> IF conn = 0 THEN "finally" ELSE "body"]]
    /\ UNCHANGED <<pool_closed, besides_pool>>

\* line 73: the block of the method runs and is left
DbBody(w, exit) ==
    /\ db_call[w].pc = "body"
    /\ db_call' = [db_call EXCEPT ![w].pc = "finally", ![w].exit = exit]
    /\ UNCHANGED <<pool_used, pool_closed, besides_pool>>

\* lines 74-78: the finally block, then the method is over; the task keeps the
\* way its last method ended
DbExit(w) ==
    /\ db_call[w].pc = "finally"
    /\ pool_used' = finally_putconn(pool_used, db_call[w].conn, db_call[w].exit)
    /\ db_call' = [db_call EXCEPT ![w] = [NoDbCall EXCEPT !.exit = db_call[w].exit]]
    /\ UNCHANGED <<pool_closed, besides_pool>>

\* lines 81-86: close_connection_pool(), called by a fetch between two methods
ClosePool ==
    /\ \A v \in Workers : db_call[v].pc = "idle"
    /\ ~pool_closed
    /\ pool_closed' = TRUE
    /\ UNCHANGED <<pool_used, db_call, besides_pool>>

(***************************************************************************)
(* The earlier revision of the identifier pipeline                         *)
(* (src/yt-dlp-async/video_id.py): module-level queues, one Event and one  *)
(* counter of items being processed per queue.  A step is one run of a     *)
(* task between two suspension points.  asyncio.wait_for(queue.get(), 1)   *)
(* is modelled as both implementations do it: up to Python 3.11 get()      *)
(* runs in a task of its own, which takes the item before the worker runs  *)
(* again (pc "got"); from Python 3.12 on the worker takes the item itself. *)
(* Time passes (Tick) only when no task is ready to run; a Tick lets any   *)
(* of the pending waits end: a timeout of wait_for, a yt-dlp subprocess,   *)
(* the sleep of a video worker.                                            *)
(***************************************************************************)
\* what the steps of the earlier revision leave alone
besides_earlier ==
    <<active_tasks, yt_video_ids, insert_calls, expanded_playlist_ids, fpc, args,
      pool_closed, has_failed_metadata, yt_metadata, is_quota_exceeded,
      metadata_queue, metadata_unfinished, shutdown_event, rpc, spc, epc,
      video_ids, last_call, mfpc, margs,
      stvars, txvars, evvars, flvars, dlvars, cnvars>>

\* a worker that has taken an item from its queue and has not finished it
Holding(pc, w) == pc[w] \in {"got", "playlists", "playlists_out", "videos", "videos_out"}

\* a task that runs as soon as the loop reaches it
Ready(pc, w) == pc[w] \in {"loop", "got", "woken", "timeout", "playlists_out", "videos_out"}

\* the getters of a queue that a put() can wake: blocked in get(), the timeout
\* not yet expired
Getters(pc) == {w \in Workers : pc[w] = "blocked"}

\* lines 245 and 295: the exit tests
user_exit ==
    /\ queue_done["user_id"]
    /\ Empty(user_id_queue)
    /\ processing_tasks_counter["user_id"] = 0

playlist_exit ==
    /\ queue_done["user_id"] /\ queue_done["playlist_id"]
    /\ Empty(playlist_id_queue)
    /\ processing_tasks_counter["playlist_id"] = 0

\* lines 254 and 305: the tests of the timeout handlers
user_timeout_sets ==
    /\ Empty(user_id_queue)
    /\ ~queue_done["user_id"]
    /\ processing_tasks_counter["user_id"] = 0

playlist_timeout_sets ==
    /\ Empty(playlist_id_queue)
    /\ queue_done["user_id"]
    /\ ~queue_done["playlist_id"]
    /\ processing_tasks_counter["playlist_id"] = 0

\* lines 252-287 from the increment on, up to the next suspension.  started1 and
\* started2 say whether create_subprocess_exec of the playlist and of the video
\* enumeration started a process; when it raises, the enumerator catches the
\* error and returns [] without suspending (lines 127-168).
UserEnumerate(w, started1, started2) ==
    /\ upc' = [upc EXCEPT ![w] = IF started1 THEN "playlists"
                                 ELSE IF started2 THEN "videos" ELSE "loop"]
    /\ processing_tasks_counter' =
          IF started1 \/ started2
          THEN [processing_tasks_counter EXCEPT !["user_id"] = @ + 1]
          ELSE processing_tasks_counter
    /\ unfinished_tasks' =
          IF started1 \/ started2 THEN unfinished_tasks ELSE TaskDone("user_id")

\* lines 243-252: the exit test, then wait_for(get()): the queue is empty and
\* get() blocks, or the item is taken (by the task of get() when window holds)
EarlierUserLoop(w, window, started1, started2) ==
    /\ upc[w] = "loop"
    /\ IF user_exit
       THEN /\ upc' = [upc EXCEPT ![w] = "finished"]
            /\ UNCHANGED <<user_id_queue, user_id, processing_tasks_counter,
                           unfinished_tasks>>
       ELSE IF Empty(user_id_queue)
       THEN /\ upc' = [upc EXCEPT ![w] = "blocked"]
            /\ UNCHANGED <<user_id_queue, user_id, processing_tasks_counter,
                           unfinished_tasks>>
       ELSE /\ user_id_queue' = Tail(user_id_queue)
            /\ user_id' = [user_id EXCEPT ![w] = Head(user_id_queue)]
            /\ IF window
               THEN /\ upc' = [upc EXCEPT ![w] = "got"]
                    /\ UNCHANGED <<processing_tasks_counter, unfinished_tasks>>
               ELSE UserEnumerate(w, started1, started2)
    /\ UNCHANGED <<playlist_id_queue, video_id_queue, ppc, vpc, playlist_id,
                   videos_to_be_processed, queue_done, besides_earlier>>

\* lines 249-252 up to Python 3.11: the worker runs again with the item the task
\* of get() took
EarlierUserResume(w, started1, started2) ==
    /\ upc[w] = "got"
    /\ UserEnumerate(w, started1, started2)
    /\ UNCHANGED <<user_id_queue, playlist_id_queue, video_id_queue, ppc, vpc,
                   user_id, playlist_id, videos_to_be_processed, queue_done,
                   besides_earlier>>

\* lines 253-257: the timeout handler
EarlierUserTimeout(w) ==
    /\ upc[w] = "timeout"
    /\ queue_done' = IF user_timeout_sets
                     THEN [queue_done EXCEPT !["user_id"] = TRUE]
                     ELSE queue_done
    /\ upc' = [upc EXCEPT ![w] = "loop"]
    /\ UNCHANGED <<user_id_queue, playlist_id_queue, video_id_queue,
                   unfinished_tasks, ppc, vpc, user_id, playlist_id,
                   videos_to_be_processed, processing_tasks_counter,
                   besides_earlier>>

\* lines 266-287: the playlist enumeration has ended; its playlists are put, each
\* put() wakes one blocked getter; then the video enumeration starts, or returns
\* [] at once and the item is finished
EarlierUserPlaylists(w, found, started2) ==
    /\ upc[w] = "playlists_out"
    /\ found \in Fitting(PlaylistListing, playlist_id_queue)
    /\ playlist_id_queue' = playlist_id_queue \o found
    /\ \E woken \in SUBSET Getters(ppc) :
          /\ Cardinality(woken) = Min(Len(found), Cardinality(Getters(ppc)))
          /\ ppc' = [p \in Workers |-> IF p \in woken THEN "woken" ELSE ppc[p]]
    /\ upc' = [upc EXCEPT ![w] = IF started2 THEN "videos" ELSE "loop"]
    /\ processing_tasks_counter' =
          IF started2 THEN processing_tasks_counter
          ELSE [processing_tasks_counter EXCEPT !["user_id"] = @ - 1]
    /\ unfinished_tasks' =
          IF started2 THEN Put("playlist_id", Len(found))
          ELSE [Put("playlist_id", Len(found)) EXCEPT !["user_id"] = @ - 1]
    /\ UNCHANGED <<user_id_queue, video_id_queue, vpc, user_id, playlist_id,
                   videos_to_be_processed, queue_done, besides_earlier>>

\* lines 273-287: the video enumeration has ended; its videos are put (the video
\* queue's count of unfinished tasks, which no line of this revision reads, is
\* not kept), task_done(), the counter goes down
EarlierUserVideos(w, found) ==
    /\ upc[w] = "videos_out"
    /\ found \in Fitting(VideoListing, video_id_queue)
    /\ video_id_queue' = video_id_queue \o found
    /\ unfinished_tasks' = TaskDone("user_id")
    /\ processing_tasks_counter' =
          [processing_tasks_counter EXCEPT !["user_id"] = @ - 1]
    /\ upc' = [upc EXCEPT ![w] = "loop"]
    /\ UNCHANGED <<user_id_queue, playlist_id_queue, ppc, vpc, user_id,
                   playlist_id, videos_to_be_processed, queue_done,
                   besides_earlier>>

\* lines 302-328 from the increment on, up to the next suspension
PlaylistEnumerate(w, started) ==
    /\ ppc' = [ppc EXCEPT ![w] = IF started THEN "videos" ELSE "loop"]
    /\ processing_tasks_counter' =
          IF started
          THEN [processing_tasks_counter EXCEPT !["playlist_id"] = @ + 1]
          ELSE processing_tasks_counter
    /\ unfinished_tasks' =
          IF started THEN unfinished_tasks ELSE TaskDone("playlist_id")

\* wait_for(get()) of a playlist worker whose get() finds the queue as it is
PlaylistTake(w, window, started) ==
    IF Empty(playlist_id_queue)
    THEN /\ ppc' = [ppc EXCEPT ![w] = "blocked"]
         /\ UNCHANGED <<playlist_id_queue, playlist_id, processing_tasks_counter,
                        unfinished_tasks>>
    ELSE /\ playlist_id_queue' = Tail(playlist_id_queue)
         /\ playlist_id' = [playlist_id EXCEPT ![w] = Head(playlist_id_queue)]
         /\ IF window
            THEN /\ ppc' = [ppc EXCEPT ![w] = "got"]
                 /\ UNCHANGED <<processing_tasks_counter, unfinished_tasks>>
            ELSE PlaylistEnumerate(w, started)

\* lines 293-302: the exit test, then wait_for(get())
EarlierPlaylistLoop(w, window, started) ==
    /\ ppc[w] = "loop"
    /\ IF playlist_exit
       THEN /\ ppc' = [ppc EXCEPT ![w] = "finished"]
            /\ UNCHANGED <<playlist_id_queue, playlist_id,
                           processing_tasks_counter, unfinished_tasks>>
       ELSE PlaylistTake(w, window, started)
    /\ UNCHANGED <<user_id_queue, video_id_queue, upc, vpc, user_id,
                   videos_to_be_processed, queue_done, besides_earlier>>

\* Queue.get() of a getter that a put() woke: it takes the item, or blocks again
\* when another worker took it first
EarlierPlaylistWoken(w, window, started) ==
    /\ ppc[w] = "woken"
    /\ PlaylistTake(w, window, started)
    /\ UNCHANGED <<user_id_queue, video_id_queue, upc, vpc, user_id,
                   videos_to_be_processed, queue_done, besides_earlier>>

\* lines 299-302 up to Python 3.11: the worker runs again with the item
EarlierPlaylistResume(w, started) ==
    /\ ppc[w] = "got"
    /\ PlaylistEnumerate(w, started)
    /\ UNCHANGED <<user_id_queue, playlist_id_queue, video_id_queue, upc, vpc,
                   user_id, playlist_id, videos_to_be_processed, queue_done,
                   besides_earlier>>

\* lines 304-307: the timeout handler
EarlierPlaylistTimeout(w) ==
    /\ ppc[w] = "timeout"
    /\ queue_done' = IF playlist_timeout_sets
                     THEN [queue_done EXCEPT !["playlist_id"] = TRUE]
                     ELSE queue_done
    /\ ppc' = [ppc EXCEPT ![w] = "loop"]
    /\ UNCHANGED <<user_id_queue, playlist_id_queue, video_id_queue,
                   unfinished_tasks, upc, vpc, user_id, playlist_id,
                   videos_to_be_processed, processing_tasks_counter,
                   besides_earlier>>

\* lines 314-328: the video enumeration has ended
EarlierPlaylistVideos(w, found) ==
    /\ ppc[w] = "videos_out"
    /\ found \in Fitting(VideoListing, video_id_queue)
    /\ video_id_queue' = video_id_queue \o found
    /\ unfinished_tasks' = TaskDone("playlist_id")
    /\ processing_tasks_counter' =
          [processing_tasks_counter EXCEPT !["playlist_id"] = @ - 1]
    /\ ppc' = [ppc EXCEPT ![w] = "loop"]
    /\ UNCHANGED <<user_id_queue, playlist_id_queue, upc, vpc, user_id,
                   playlist_id, videos_to_be_processed, queue_done,
                   besides_earlier>>

\* line 336: the exit test of a video worker
video_exit ==
    /\ Empty(video_id_queue)
    /\ queue_done["video_id"] /\ queue_done["user_id"] /\ queue_done["playlist_id"]
    /\ processing_tasks_counter["video_id"] = 0

\* lines 334-363: one pass of a video worker: the queue is drained (the counter
\* goes up once per ID), the batch is inserted, the counter goes down once, the
\* Event is set when the test of line 360 holds, and the worker sleeps
EarlierVideoPass(w) ==
    /\ vpc[w] = "loop"
    /\ IF video_exit
       THEN /\ vpc' = [vpc EXCEPT ![w] = "finished"]
            /\ UNCHANGED <<video_id_queue, videos_to_be_processed,
                           processing_tasks_counter, queue_done>>
       ELSE /\ video_id_queue' = <<>>
            /\ videos_to_be_processed' =
                  insert_video_ids(videos_to_be_processed, video_id_queue)
            /\ processing_tasks_counter' =
                  [processing_tasks_counter EXCEPT
                      !["video_id"] = @ + Len(video_id_queue) - 1]
            /\ queue_done' =
                  IF /\ queue_done["user_id"] /\ queue_done["playlist_id"]
                     /\ processing_tasks_counter'["video_id"] = 0
                  THEN [queue_done EXCEPT !["video_id"] = TRUE]
                  ELSE queue_done
            /\ vpc' = [vpc EXCEPT ![w] = "sleep"]
    /\ UNCHANGED <<user_id_queue, playlist_id_queue, unfinished_tasks, upc, ppc,
                   user_id, playlist_id, besides_earlier>>

\* what a wait that has ended makes of a task
Aged(pc) ==
    CASE pc = "blocked" -> "timeout"
      [] pc = "playlists" -> "playlists_out"
      [] pc = "videos" -> "videos_out"
      [] pc = "sleep" -> "loop"
      [] OTHER -> pc

Pending(pc) == {w \in Workers : Aged(pc[w]) # pc[w]}

\* the video workers whose sleep may end: the counter of the video queue, which
\* drifts without bound, is kept within MaxQueue of 0
Sleepers ==
    IF processing_tasks_counter["video_id"] \in (1 - MaxQueue)..MaxQueue
    THEN Pending(vpc) ELSE {}

\* no task is ready, and time passes until some of the pending waits end
Tick(users, playlists, videos) ==
    /\ \A w \in Workers : ~Ready(upc, w) /\ ~Ready(ppc, w) /\ ~Ready(vpc, w)
    /\ users \subseteq Pending(upc)
    /\ playlists \subseteq Pending(ppc)
    /\ videos \subseteq Sleepers
    /\ users \cup playlists \cup videos # {}
    /\ upc' = [w \in Workers |-> IF w \in users THEN Aged(upc[w]) ELSE upc[w]]
    /\ ppc' = [w \in Workers |-> IF w \in playlists THEN Aged(ppc[w]) ELSE ppc[w]]
    /\ vpc' = [w \in Workers |-> IF w \in videos THEN Aged(vpc[w]) ELSE vpc[w]]
    /\ UNCHANGED <<user_id_queue, playlist_id_queue, video_id_queue,
                   unfinished_tasks, user_id, playlist_id, videos_to_be_processed,
                   queue_done, processing_tasks_counter, besides_earlier>>

(***************************************************************************)
(* video_download.py: Fetcher.extract_date, the date extraction that       *)
(* determine_path_and_name calls (lines 196-200)                           *)
(***************************************************************************)
\* the pairs of regular expression and format in the order of lines 255-294;
\* the last expression, \b\w+\s\d{1,2},\s\d{4}\b, takes any word for the month
FetcherDatePatterns ==
    << [sep |-> ".", lo |-> <<1, 1, 4>>, hi |-> <<2, 2, 4>>, names |-> {},
        format |-> <<"d", "m", "Y">>],
       [sep |-> ".", lo |-> <<1, 1, 4>>, hi |-> <<2, 2, 4>>, names |-> {},
        format |-> <<"m", "d", "Y">>],
       [sep |-> ".", lo |-> <<1, 1, 2>>, hi |-> <<2, 2, 2>>, names |-> {},
        format |-> <<"m", "d", "y">>],
       [sep |-> "/", lo |-> <<1, 1, 2>>, hi |-> <<2, 2, 2>>, names |-> {},
        format |-> <<"m", "d", "y">>],
       [sep |-> "-", lo |-> <<1, 1, 2>>, hi |-> <<2, 2, 2>>, names |-> {},
        format |-> <<"m", "d", "y">>],
       [sep |-> ",", lo |-> <<1, 4>>, hi |-> <<2, 4>>, names |-> {"\\w+"},
        format |-> <<"B", "d", "Y">>] >>

\* a character or word that \w matches
IsWord(c) == c \notin {" ", ",", ".", "/", "-"}

\* the match of \b\w+\s\d{1,2},\s\d{4}\b that starts at a word: one space, the
\* day, a comma, one space, a year of four digits that no digit or word follows
word_at(chars, pos) ==
    LET k1 == run(chars, pos + 2)
        comma == pos + 2 + k1
        r2 == run(chars, comma + 2)
    IN IF /\ IsWord(chars[pos]) /\ ~IsDigit(chars[pos])
          /\ pos + 1 <= Len(chars) /\ chars[pos + 1] = " "
          /\ k1 >= 1 /\ k1 <= 2
          /\ comma + 1 <= Len(chars) /\ chars[comma] = "," /\ chars[comma + 1] = " "
          /\ r2 = 4
          /\ comma + 6 <= Len(chars) => ~IsWord(chars[comma + 6])
       THEN << <<chars[pos]>>,
               SubSeq(chars, pos + 2, comma - 1),
               SubSeq(chars, comma + 2, comma + 5) >>
       ELSE <<>>

\* re.search of an expression of FetcherDatePatterns: the groups of the match at
\* the first place that has one, or <<>>
fetcher_search(chars, p) ==
    LET at(pos) == IF p.names = {} THEN numeric_at(chars, pos, p)
                   ELSE word_at(chars, pos)
        starts == {pos \in 1..Len(chars) : at(pos) # <<>>}
    IN IF starts = {} THEN <<>> ELSE at(First(starts))

\* date_match.group(0): the text of a match
group0(groups, p) ==
    IF p.names = {}
    THEN groups[1] \o <<p.sep>> \o groups[2] \o <<p.sep>> \o groups[3]
    ELSE groups[1] \o <<" ">> \o groups[2] \o <<",", " ">> \o groups[3]

\* "".join(parts)
RECURSIVE join(_)
join(parts) == IF parts = <<>> THEN <<>> ELSE Head(parts) \o join(Tail(parts))

\* str.strip() of spaces
RECURSIVE strip(_)
strip(chars) ==
    IF chars = <<>> THEN <<>>
    ELSE IF Head(chars) = " " THEN strip(Tail(chars))
    ELSE IF chars[Len(chars)] = " " THEN strip(SubSeq(chars, 1, Len(chars) - 1))
    ELSE chars

\* text.replace(date_match.group(0), '').strip()
without(chars, matched) == strip(join(str_split(chars, matched)))

\* Fetcher.extract_date(text) from the k-th block on: the first expression that
\* matches decides.  Its match is parsed without try: a match that is no date
\* of the calendar in the block's format leaves the call as ValueError.
RECURSIVE fetcher_extract_date_from(_, _, _)
fetcher_extract_date_from(chars, patterns, k) ==
    IF k > Len(patterns)
    THEN [date |-> NoDate, raised |-> FALSE, by |-> 0, rest |-> chars]
    ELSE LET date_match == fetcher_search(chars, patterns[k])
         IN IF date_match = <<>>
            THEN fetcher_extract_date_from(chars, patterns, k + 1)
            ELSE LET parsed == strptime(date_match, patterns[k].format)
                 IN IF parsed = NoDate
                    THEN [date |-> NoDate, raised |-> TRUE, by |-> k, rest |-> chars]
                    ELSE [date |-> parsed, raised |-> FALSE, by |-> k,
                          rest |-> without(chars, group0(date_match, patterns[k]))]

fetcher_extract_date(chars) ==
    fetcher_extract_date_from(chars, FetcherDatePatterns, 1)

\* a call of Fetcher.extract_date on a text
FetcherExtractDate ==
    /\ fetcher_date = NoFetched
    /\ fetcher_date' = fetcher_extract_date(text)
    /\ UNCHANGED <<text, teams, extracted, besides_text>>

(***************************************************************************)
(* Initial states                                                          *)
(***************************************************************************)
\* what the two pipelines do not use is left as it is
OthersIdle == StoreIdle /\ TextIdle /\ EventsIdle /\ FilesIdle /\ DownloadIdle

\* files are given by the IDs they hold: no file, or a file with every ID
FileIds(S) == {{}, S}

Args ==
    [user_ids : SUBSET UserIds, user_id_files : FileIds(UserIds),
     playlist_ids : SUBSET PlaylistIds, playlist_id_files : FileIds(PlaylistIds),
     video_ids : SUBSET VideoIds, video_id_files : FileIds(VideoIds),
     num_workers : NumWorkersValues]

NoArgs ==
    [user_ids |-> {}, user_id_files |-> {}, playlist_ids |-> {},
     playlist_id_files |-> {}, video_ids |-> {}, video_id_files |-> {},
     num_workers |-> IntValue(NumWorkers)]

\* QueueManager.__init__ and the database before the run
InitQueueManager ==
    /\ user_id_queue = <<>>
    /\ playlist_id_queue = <<>>
    /\ video_id_queue = <<>>
    /\ unfinished_tasks = [name \in QueueNames |-> 0]
    /\ active_tasks = [name \in QueueNames |-> 0]

InitLocals ==
    /\ user_id = [w \in Workers |-> Unbound]
    /\ playlist_id = [w \in Workers |-> Unbound]
    /\ yt_video_ids = {}
    /\ insert_calls = 0
    /\ expanded_playlist_ids = {}
    /\ pool_closed = FALSE

\* the metadata pipeline is not run
MetaIdle ==
    /\ videos_to_be_processed = {}
    /\ has_failed_metadata = {}
    /\ yt_metadata = {}
    /\ is_quota_exceeded = FALSE
    /\ metadata_queue = <<>>
    /\ metadata_unfinished = 0
    /\ shutdown_event = FALSE
    /\ rpc = [w \in Workers |-> "none"]
    /\ spc = [w \in SaveWorkers |-> "none"]
    /\ epc = [w \in Workers |-> "none"]
    /\ video_ids = [w \in Workers |-> Unbound]
    /\ last_call = [w \in Workers |-> NoCall]
    /\ mfpc = "idle"
    /\ margs = NoArgs

\* the identifier pipeline is not run
IdIdle ==
    /\ InitQueueManager
    /\ InitLocals
    /\ upc = NotCreated /\ ppc = NotCreated /\ vpc = NotCreated
    /\ fpc = "idle"
    /\ args = NoArgs

\* Fetcher().fetch(...) is called with any arguments
InitFetch ==
    /\ OthersIdle
    /\ MetaIdle
    /\ InitQueueManager
    /\ InitLocals
    /\ upc = NotCreated /\ ppc = NotCreated /\ vpc = NotCreated
    /\ fpc = "start"
    /\ args \in Args

\* The three worker pools run on a QueueManager whose user and playlist queues
\* already hold IDs (put there with put(), so they count as unfinished), and the
\* caller waits at line 172.
InitWorkers ==
    /\ OthersIdle
    /\ user_id_queue \in {<<>>, <<"u1">>}
    /\ playlist_id_queue \in Fitting(PlaylistListing, <<>>)
    /\ video_id_queue = <<>>
    /\ unfinished_tasks = [name \in QueueNames |->
                             CASE name = "user_id" -> Len(user_id_queue)
                               [] name = "playlist_id" -> Len(playlist_id_queue)
                               [] OTHER -> 0]
    /\ active_tasks = [name \in QueueNames |-> 0]
    /\ InitLocals
    /\ upc = Created /\ ppc = Created /\ vpc = Created
    /\ fpc = "gather"
    /\ args = NoArgs
    /\ MetaIdle

MetaArgs ==
    [user_ids : {{}}, user_id_files : {{}}, playlist_ids : {{}},
     playlist_id_files : {{}}, video_ids : SUBSET VideoIds,
     video_id_files : {{}}, num_workers : NumWorkersValues]

\* the storage before a run: any rows, any of them quarantined by an earlier run
InitStorage ==
    /\ videos_to_be_processed \in SUBSET VideoIds
    /\ has_failed_metadata \in SUBSET videos_to_be_processed
    /\ yt_metadata = {}

\* Fetcher().fetch(...) of video_metadata.py is called with any arguments
InitMeta ==
    /\ OthersIdle
    /\ IdIdle
    /\ InitStorage
    /\ is_quota_exceeded = FALSE
    /\ metadata_queue = <<>>
    /\ metadata_unfinished = 0
    /\ shutdown_event = FALSE
    /\ rpc = [w \in Workers |-> "none"]
    /\ spc = [w \in SaveWorkers |-> "none"]
    /\ epc = [w \in Workers |-> "none"]
    /\ video_ids = [w \in Workers |-> Unbound]
    /\ last_call = [w \in Workers |-> NoCall]
    /\ mfpc = "start"
    /\ margs \in MetaArgs

\* The pools of the metadata pipeline run on a QueueManager whose metadata queue
\* already holds records (put there with put()), with the module's flag
\* is_quota_exceeded in either state, and the caller waits at line 182.
InitMetaWorkers ==
    /\ OthersIdle
    /\ IdIdle
    /\ InitStorage
    /\ is_quota_exceeded \in BOOLEAN
    /\ metadata_queue \in Fitting(VideoListing, <<>>)
    /\ metadata_unfinished = Len(metadata_queue)
    /\ shutdown_event = FALSE
    /\ rpc = [w \in Workers |-> "loop"]
    /\ spc = [w \in SaveWorkers |-> "loop"]
    /\ epc = [w \in Workers |-> "loop"]
    /\ video_ids = [w \in Workers |-> Unbound]
    /\ last_call = [w \in Workers |-> NoCall]
    /\ mfpc = "gather_retrieve"
    /\ margs = NoArgs

(***************************************************************************)
(* Specifications                                                          *)
(***************************************************************************)
\* fetch as the command line calls it.  The queues stay empty in every run
\* (QueuesStayEmpty), so of the workers only the exit tests can act.
NextFetch ==
    \/ FetchInvalid
    \/ FetchSeed
    \/ FetchGather
    \/ FetchJoin
    \/ \E w \in Workers : UserBreak(w)
    \/ \E w \in Workers : PlaylistBreak(w)
    \/ \E w \in Workers : VideoBreak(w)

SpecFetch == InitFetch /\ [][NextFetch]_vars

NextWorkers ==
    \/ \E w \in Workers : UserBreak(w)
    \/ \E w \in Workers : UserBegin(w)
    \/ \E w \in Workers : UserGet(w)
    \/ \E w \in Workers : UserGetTimeout(w)
    \/ \E w \in Workers : UserPlaylists(w)
    \/ \E w \in Workers : UserVideos(w)
    \/ \E w \in Workers : PlaylistBreak(w)
    \/ \E w \in Workers : PlaylistBegin(w)
    \/ \E w \in Workers : PlaylistGet(w)
    \/ \E w \in Workers : PlaylistGetTimeout(w)
    \/ \E w \in Workers : PlaylistVideos(w)
    \/ \E w \in Workers : VideoBreak(w)
    \/ \E w \in Workers : VideoBatch(w)
    \/ FetchGather
    \/ FetchJoin

SpecWorkers == InitWorkers /\ [][NextWorkers]_vars

\* fetch of video_metadata.py as the command line calls it.  No record is ever
\* queued (queued_records), so of the save workers only the exit test can act.
NextMeta ==
    \/ MetaFetchInvalid
    \/ MetaFetchStart
    \/ MetaFetchShutdown
    \/ MetaFetchGather
    \/ MetaFetchJoin
    \/ \E w \in Workers : Retrieve(w)
    \/ \E w \in SaveWorkers : SaveBreak(w)
    \/ \E w \in Workers : EventBreak(w)

SpecMeta == InitMeta /\ [][NextMeta]_vars

NextMetaWorkers ==
    \/ MetaFetchShutdown
    \/ MetaFetchGather
    \/ MetaFetchJoin
    \/ \E w \in Workers : Retrieve(w)
    \/ \E w \in SaveWorkers : SaveBreak(w)
    \/ \E w \in SaveWorkers : SaveBegin(w)
    \/ \E w \in SaveWorkers : SaveGet(w)
    \/ \E w \in SaveWorkers : SaveGetTimeout(w)
    \/ \E w \in Workers : EventBreak(w)

SpecMetaWorkers == InitMetaWorkers /\ [][NextMetaWorkers]_vars

\* every step of a worker the code can take, enabled or not in SpecFetch
WorkerWork ==
    \E w \in Workers :
        \/ UserBegin(w) \/ UserGet(w) \/ UserGetTimeout(w)
        \/ UserPlaylists(w) \/ UserVideos(w)
        \/ PlaylistBegin(w) \/ PlaylistGet(w) \/ PlaylistGetTimeout(w)
        \/ PlaylistVideos(w) \/ VideoBatch(w)

\* under SpecFetch no worker step other than an exit test is ever enabled
QueuesStayEmpty == ~ENABLED WorkerWork

(***************************************************************************)
(* Properties of the identifier pipeline                                   *)
(***************************************************************************)
\* a worker that holds an item it took from its queue
Processing(pc) == \E w \in Workers : pc[w] \in {"playlists", "videos"}

\* a worker whose task has ended, by break or by an exception
Left(pc, w) == pc[w] \in {"finished", "died"}

\* C1: no playlist worker has left its loop while the user queue is not empty or
\* a user worker is processing an item, and no video worker has left its loop
\* while the user or playlist queue is not empty or a user or playlist worker is
\* processing an item.
C1_LeaveOrder ==
    /\ \A w \in Workers :
          Left(ppc, w) => Empty(user_id_queue) /\ ~Processing(upc)
    /\ \A w \in Workers :
          Left(vpc, w) =>
              /\ Empty(user_id_queue) /\ Empty(playlist_id_queue)
              /\ ~Processing(upc) /\ ~Processing(ppc)

\* the same of the workers that left through their exit test
BreakOrder ==
    /\ \A w \in Workers :
          ppc[w] = "finished" => Empty(user_id_queue) /\ ~Processing(upc)
    /\ \A w \in Workers :
          vpc[w] = "finished" =>
              /\ Empty(user_id_queue) /\ Empty(playlist_id_queue)
              /\ ~Processing(upc) /\ ~Processing(ppc)

\* C2: when fetch has ended, no ID handed to the pipeline is lost: every seed
\* playlist ID has been expanded by a playlist worker, and no playlist or video
\* ID is left on a queue.
C2_NoIdLost ==
    fpc \in {"returned", "raised"} /\ ~invalid_num_workers(args.num_workers) =>
        /\ args.playlist_ids \subseteq expanded_playlist_ids
        /\ Empty(playlist_id_queue) /\ Empty(video_id_queue)

\* fetch is given no user and no playlist IDs, and a valid num_workers
NoUpstreamSeeds ==
    /\ ~invalid_num_workers(args.num_workers)
    /\ args.user_ids = {} /\ args.user_id_files = {}
    /\ args.playlist_ids = {} /\ args.playlist_id_files = {}

\* the workers of a pool have done nothing but their exit test
FirstCheckOnly(pc) == \A w \in Workers : pc[w] \in {"none", "loop", "finished"}

C4_SaveAfterRetrieve ==
    /\ shutdown_event => \A w \in Workers : rpc[w] = "finished"
    /\ \A s \in SaveWorkers :
          spc[s] = "finished" =>
              /\ shutdown_event
              /\ Empty(metadata_queue)
              /\ \A w \in Workers : rpc[w] = "finished"

\* a save worker has left after a record was upserted
C4_Witness == \E s \in SaveWorkers : spc[s] = "finished" /\ yt_metadata # {}

\* the API answered the call with 403 quotaExceeded
QuotaAnswer(c) ==
    c.called /\ c.response.status = 403 /\ c.response.reason = "quotaExceeded"

\* C5: once the metadata API has answered a worker's call with 403 quotaExceeded,
\* the flag is_quota_exceeded shared by the retrieval workers is true.
C5_QuotaFlagSet == \A w \in Workers : QuotaAnswer(last_call[w]) => is_quota_exceeded

C7_AbsentIdsFlagged ==
    \A w \in Workers :
        LET c == last_call[w]
        IN c.called /\ c.response.status = 200 =>
               /\ c.problematic = c.batch \ c.response.items
               /\ (c.batch \ c.response.items) \subseteq has_failed_metadata
               /\ c.response.items \cap has_failed_metadata = {}

\* C8: after a call answered with 200 for k IDs, j of them missing, one record
\* per returned item was put on the metadata queue (k-j records) and j IDs were
\* quarantined; when the run has ended the k-j records are upserted.
C8_OneRecordPerItem ==
    \A w \in Workers :
        LET c == last_call[w]
        IN c.called /\ c.response.status = 200 =>
               /\ Range(c.records) = c.response.items
               /\ Len(c.records) = Cardinality(c.batch) - Cardinality(c.problematic)
               /\ Cardinality(c.problematic) =
                      Cardinality(c.batch) - Cardinality(c.response.items)
               /\ mfpc = "returned" => c.response.items \subseteq yt_metadata

\* a 403 that is not quotaExceeded, or any other status that is not 200
Failure(response) ==
    /\ response.status # 200
    /\ ~(response.status = 403 /\ response.reason = "quotaExceeded")

\* C9: a call answered with a failure yields no record and passes no ID to
\* set_video_id_failed_metadata_true, whatever the value of isQuotaExceeded; the
\* step of the call leaves has_failed_metadata and the metadata queue as they
\* were, and the IDs of the batch are not quarantined.
C9_FailedBatchUntouched ==
    /\ [](\A w \in Workers :
            LET c == last_call[w]
            IN c.called /\ Failure(c.response) =>
                   /\ c.records = <<>>
                   /\ c.problematic = {}
                   /\ c.batch \cap has_failed_metadata = {})
    /\ [](\A batch \in SUBSET VideoIds : \A response \in Responses(batch) :
            \A local \in {"unbound", "true", "false"} :
                Failure(response) =>
                    LET r == fetch_video_metadata_body(batch, response, FALSE, local)
                    IN r.items = {} /\ r.problematic = {} /\ r.quota = FALSE)
    /\ [][(\E w \in Workers :
              last_call'[w] # last_call[w] /\ Failure(last_call'[w].response)) =>
             /\ has_failed_metadata' = has_failed_metadata
             /\ metadata_queue' = metadata_queue]_vars

\* a call was answered with a failure
C9_Witness ==
    \E w \in Workers :
        /\ last_call[w].called /\ Failure(last_call[w].response)
        /\ last_call[w].batch # {}

\* C10: no step takes an ID out of has_failed_metadata; a selection holds no ID
\* that was quarantined when it was made; and of the operations on the table,
\* set_video_id_failed_metadata_true and insert_video_ids_bulk keep every flag
\* and the selection returns no quarantined ID, for all rows and flags.
C10_QuarantineMonotone ==
    /\ [][has_failed_metadata \subseteq has_failed_metadata']_vars
    /\ [][\A w \in Workers :
            video_ids'[w] # video_ids[w] =>
                video_ids'[w][1] \cap has_failed_metadata = {}]_vars
    /\ [](\A rows \in SUBSET VideoIds : \A failed \in SUBSET rows :
            /\ \A sel \in get_video_ids_without_metadata(rows, failed) :
                   sel \cap failed = {}
            /\ \A ids \in SUBSET VideoIds :
                   /\ failed \subseteq
                          set_video_id_failed_metadata_true(rows, failed, ids)
                   /\ insert_video_ids_bulk(rows, failed, ids).failed = failed)

\* a selection was made while the table held a quarantined row and an eligible one
C10_Witness ==
    \E w \in Workers :
        /\ video_ids[w] # Unbound
        /\ video_ids[w][1] # {}
        /\ has_failed_metadata # {}

(***************************************************************************)
(* The storage: writes of metadata and of video IDs in any order           *)
(***************************************************************************)
InitStore ==
    /\ IdIdle
    /\ DownloadIdle
    /\ MetaIdle
    /\ StoreIdle
    /\ TextIdle
    /\ EventsIdle
    /\ FilesIdle

NextStore ==
    \/ \E v \in VideoIds, f \in Failures : UpsertBegin(v, f)
    \/ UpsertExecute
    \/ UpsertCommit
    \/ UpsertError
    \/ \E video_ids_batch \in Batches : InsertVideoIds(video_ids_batch)

SpecStore == InitStore /\ [][NextStore]_vars

\* the rows of a write that failed
RowsOfAborted(rows) ==
    {r \in DOMAIN rows : \E a \in aborted : rows[r] = a.version}

\* C11: no row of a write of insert_update_video_metadata that failed is visible
\* in storage, and the visible rows of a video are those of one whole write:
\* all five tables hold the row of the same write, or none holds a row; a
\* connection in the pool carries no uncommitted row.
C11_AllOrNothing ==
    /\ RowsOfAborted(tables) = {}
    /\ \A v \in VideoIds : \A t1, t2 \in Statements :
          tables[<<v, t1>>] = tables[<<v, t2>>]
    /\ upsert = NoUpsert => txn = NoRows

\* a write failed after its first statements with an exception that is not a
\* psycopg2.Error, and a later write on the same connection was committed
C11_Witness ==
    \E a \in aborted : \E v \in VideoIds :
        /\ a.error = "KeyError"
        /\ a.fail_at > 1
        /\ tables[<<v, 1>>] > a.version

\* a table without two rows of one key
NoDuplicate(rows) == \A i, j \in 1..Len(rows) : rows[i] = rows[j] => i = j

\* yt_video_ids never holds a video ID twice; inserting a batch a second time
\* leaves the table as the first insert left it, whatever the batch (an ID twice
\* in it included); and the stored set is the one the identifier pipeline's
\* batch insert computes.
InsertTwice ==
    /\ NoDuplicate(video_id_rows)
    /\ \A video_ids_batch \in Batches :
          LET once == executemany_insert(video_id_rows, video_ids_batch)
          IN /\ executemany_insert(once, video_ids_batch) = once
             /\ NoDuplicate(once)
             /\ Range(once) = insert_video_ids(Range(video_id_rows), video_ids_batch)


(***************************************************************************)
(* Utils.extract_teams on any title of up to MaxLen words                  *)
(***************************************************************************)
InitText ==
    /\ IdIdle
    /\ DownloadIdle
    /\ MetaIdle
    /\ StoreIdle
    /\ EventsIdle
    /\ FilesIdle
    /\ text \in Texts
    /\ teams = NoTeams
    /\ extracted = NoExtract
    /\ fetcher_date = NoFetched

NextText == ExtractTeams

SpecText == InitText /\ [][NextText]_vars

\* the delimiters of the list that occur in a title, in the order of the list
Occurring(words) ==
    SelectSeq(Delimiters, LAMBDA d : places(lower(words), d, 1) # {})

\* the candidates on the right (home) and on the left (away) of a delimiter
HomeSide(words, d) == find_team_candidates(split(lower(words), d)[2])
AwaySide(words, d) == find_team_candidates(split(lower(words), d)[1])

\* the pair the cases of the rule give for two sets of candidates
ByCases(H, A) ==
    CASE Cardinality(H) = 1 /\ Cardinality(A) = 1 -> <<only(H), only(A)>>
      [] Cardinality(H) = 1 /\ A = {} -> <<only(H), "unknown">>
      [] H = {} /\ Cardinality(A) = 1 -> <<"unknown", only(A)>>
      [] Cardinality(H) = 1 /\ Cardinality(A) > 1 ->
            IF Cardinality(A \ H) = 1 THEN <<only(H), only(A \ H)>>
                                      ELSE <<only(H), "unknown">>
      [] Cardinality(A) = 1 /\ Cardinality(H) > 1 ->
            IF Cardinality(H \ A) = 1 THEN <<only(H \ A), only(A)>>
                                      ELSE <<"unknown", only(A)>>
      [] OTHER -> <<"unknown", "unknown">>

\* the cases the rule names: one candidate on a side, or several on both
Named(H, A) ==
    \/ Cardinality(H) = 1
    \/ Cardinality(A) = 1
    \/ Cardinality(H) > 1 /\ Cardinality(A) > 1

\* C16: extract_teams returns (home, away) from the candidates right and left of
\* the delimiter: one on each side gives the pair; one and none gives the known
\* code and "unknown"; one and several removes the known code from the larger
\* set and gives both codes if one remains, else the known code and "unknown";
\* several on both sides, or no delimiter, gives ("unknown", "unknown").
C16_TeamsByCandidates ==
    /\ teams # NoTeams =>
          IF Occurring(text) = <<>>
          THEN <<teams.home, teams.away>> = <<"unknown", "unknown">>
          ELSE LET d == Head(Occurring(text))
                   H == HomeSide(text, d)
                   A == AwaySide(text, d)
               IN Named(H, A) => <<teams.home, teams.away>> = ByCases(H, A)
    /\ LET r == extract_teams(<<"Red", "Sox", "at", "Yankees">>)
       IN <<r.home, r.away>> = <<"nya", "bos">>
    /\ LET r == extract_teams(<<"Unknown", "Team", "at", "Yankees">>)
       IN <<r.home, r.away>> = <<"nya", "unknown">>

\* a title with one candidate on the left and several on the right, of which
\* one remains when the left one is removed
C16_Witness ==
    /\ teams # NoTeams
    /\ Occurring(text) # <<>>
    /\ Cardinality(AwaySide(text, Head(Occurring(text)))) = 1
    /\ Cardinality(HomeSide(text, Head(Occurring(text)))) > 1
    /\ teams.home \notin {"unknown", teams.away}

\* C17: the first delimiter of the list that occurs decides: the result is
\* computed from its two candidate sets alone, and no later delimiter is tried
\* whatever the numbers of candidates.
C17_FirstDelimiterDecides ==
    teams # NoTeams /\ Occurring(text) # <<>> =>
        LET d == Head(Occurring(text))
        IN /\ teams.scanned = <<d>>
           /\ <<teams.home, teams.away>> = ByCases(HomeSide(text, d), AwaySide(text, d))

\* a title whose first delimiter has no candidate on one side and one on the
\* other was decided there
C17_Witness ==
    /\ teams # NoTeams
    /\ Len(Occurring(text)) > 1
    /\ teams.scanned = <<Head(Occurring(text))>>

(***************************************************************************)
(* The tables of events and of video IDs: runs of EventFetcher for any     *)
(* date and answer of the schedule API, and inserts of video IDs           *)
(***************************************************************************)
InitEvents ==
    /\ IdIdle
    /\ DownloadIdle
    /\ MetaIdle
    /\ StoreIdle
    /\ TextIdle
    /\ EventsIdle
    /\ FilesIdle

NextEvents ==
    \/ \E date_stub \in Days, check_ok \in BOOLEAN :
          \E data \in ScheduleResponses(date_stub) : EventRun(date_stub, check_ok, data)
    \/ \E video_ids_batch \in Batches : InsertVideoIds(video_ids_batch)

SpecEvents == InitEvents /\ [][NextEvents]_vars

\* events of a day are stored
Loaded(date_stub) == \E i \in 1..Len(e_events) : e_events[i].date.day = date_stub

\* a step is a run of EventFetcher that did something
Ran == event_run' # event_run \/ e_events' # e_events

\* the run made no request and no insert, and the stored events are unchanged
ShortCircuit ==
    /\ ~event_run'.requested
    /\ event_run'.saved = <<>>
    /\ e_events' = e_events

C14_OnlyQualifying ==
    \A i \in 1..Len(e_events) :
        /\ e_events[i].event_id # ""
        /\ e_events[i].date.day # 0
        /\ e_events[i].short_name # ""
        /\ e_events[i].type > 1

\* a side of a lookup is known
Known(team) == team \notin {"Unknown", "unknown"}

\* C15: for the stored events and any date, a lookup of the event ID with at
\* least one side's team known selects at most one stored event.
C15_AtMostOneEvent ==
    \A date_obj \in Days : \A home_team, away_team \in LookupTeams :
        Known(home_team) \/ Known(away_team) =>
            Cardinality(matching(e_events, date_obj, home_team, away_team)) <= 1

\* two stored events answer one lookup, and fetchone may return either
C15_Witness ==
    \E date_obj \in Days :
        Cardinality(get_event_id(e_events, date_obj, "nya", "bos")) = 2

\* a table of events without two rows of one event ID
NoDuplicateEvent(rows) ==
    \A i, j \in 1..Len(rows) : rows[i].event_id = rows[j].event_id => i = j

\* e_events never holds an event ID twice, and saving the events of an answer a
\* second time, or an event whose ID is stored with other fields, leaves every
\* stored row as it was.
SaveTwice ==
    /\ NoDuplicateEvent(e_events)
    /\ \A date_stub \in Days : \A data \in ScheduleResponses(date_stub) :
          LET records == extract_events(data.events)
              once == save_events(e_events, records)
          IN /\ save_events(once, records) = once
             /\ NoDuplicateEvent(once)
             /\ SubSeq(once, 1, Len(e_events)) = e_events

\* C12: inserting a VideoID that is stored (in one batch, in two batches) or an
\* Event ID that is stored produces no duplicate row and no error, and leaves
\* the stored VideoIDs and the stored Event as the first insert left them.
C12_InsertTwice == InsertTwice /\ SaveTwice

\* a batch of stored video IDs was inserted again, and an event was offered
\* again under a stored ID
C12_Witness ==
    /\ Len(video_id_rows) = Cardinality(VideoIds)
    /\ conflicts = 2
    /\ \E i \in 1..Len(e_events) : \E j \in 1..Len(event_run.saved) :
          /\ e_events[i].event_id = event_run.saved[j].event_id
          /\ e_events[i] # event_run.saved[j]

(***************************************************************************)
(* Utils.extract_date on texts with a numeric date, a textual date or both *)
(***************************************************************************)
InitDate ==
    /\ IdIdle
    /\ DownloadIdle
    /\ MetaIdle
    /\ StoreIdle
    /\ EventsIdle
    /\ FilesIdle
    /\ text \in DateTexts
    /\ teams = NoTeams
    /\ extracted = NoExtract
    /\ fetcher_date = NoFetched

NextDate == ExtractDate

SpecDate == InitDate /\ [][NextDate]_vars

\* the date an expression of the list gives for a text: that of its first match
\* if it is a date of the calendar, else none
Gives(chars, k) ==
    LET date_match == re_search(chars, DatePatterns[k])
    IN IF date_match = <<>> THEN NoDate
       ELSE strptime(date_match, DatePatterns[k].format)

\* the first dotted a.b.YYYY of a text, as its three numbers, or <<>>
Dotted(chars) ==
    LET groups == re_search(chars, DatePatterns[1])
    IN IF groups = <<>> THEN <<>>
       ELSE <<Value(groups[1]), Value(groups[2]), Value(groups[3])>>

\* C18: extract_date returns the date of the first expression of its list that
\* matches the text and whose match is a date of the calendar, and none when
\* there is no such expression; the numeric expressions come before the textual
\* ones; a dotted a.b.YYYY is read as month a and day b whenever that is a date.
C18_FirstValidPattern ==
    /\ extracted # NoExtract =>
          /\ \/ /\ extracted.by = 0
                /\ extracted.date = NoDate
                /\ \A k \in 1..Len(DatePatterns) : Gives(text, k) = NoDate
             \/ /\ extracted.by \in 1..Len(DatePatterns)
                /\ extracted.date = Gives(text, extracted.by)
                /\ extracted.date # NoDate
                /\ \A k \in 1..(extracted.by - 1) : Gives(text, k) = NoDate
          /\ (\E k \in 1..Len(DatePatterns) :
                 DatePatterns[k].names = {} /\ Gives(text, k) # NoDate)
                => DatePatterns[extracted.by].names = {}
          /\ LET abY == Dotted(text)
             IN (abY # <<>> /\ abY[1] \in 1..12 /\ abY[3] >= 1
                    /\ abY[2] \in 1..DaysInMonth(abY[3], abY[1]))
                => extracted.date = [year |-> abY[3], month |-> abY[1], day |-> abY[2]]
    /\ extract_date(<<"G", "a", "m", "e", " ", "o", "n", " ", "0", "7", ".", "0",
                      "4", ".", "2", "0", "2", "1", " ", "h", "i", "g", "h",
                      "l", "i", "g", "h", "t", "s">>).date
          = [year |-> 2021, month |-> 7, day |-> 4]

\* a text with a dotted date that is a date either way round and with a textual
\* date was read by the first expression
C18_Witness ==
    /\ extracted # NoExtract
    /\ extracted.by = 1
    /\ extracted.date.day # extracted.date.month
    /\ extracted.date.day <= 12
    /\ \E k \in 1..Len(DatePatterns) :
          DatePatterns[k].names # {} /\ Gives(text, k) # NoDate

(***************************************************************************)
(* Utils.extract_video_info_filepath on the names the naming step gives    *)
(***************************************************************************)
InitFile ==
    /\ IdIdle
    /\ DownloadIdle
    /\ MetaIdle
    /\ StoreIdle
    /\ TextIdle
    /\ EventsIdle
    /\ file \in FileNames
    /\ file_info = <<>>
    /\ info_dict = NoInfo
    /\ named = NoName

NextFile == ExtractVideoInfo

SpecFile == InitFile /\ [][NextFile]_vars

\* C19: for every VideoID and format ID, the extraction applied to a file name
\* that the naming step built from them, with or without an event ID, returns
\* that VideoID and that format ID.
C19_RoundTrip ==
    file_info # <<>> => file_info = <<file.video_id, file.format_id>>

\* the name of a file with an event ID gave back its video ID and format ID
C19_Witness ==
    /\ file_info # <<>>
    /\ file.e_event_id # <<>>
    /\ file_info = <<file.video_id, file.format_id>>

(***************************************************************************)
(* Fetcher.determine_path_and_name on any title, with or without a date    *)
(***************************************************************************)
InitName ==
    /\ IdIdle
    /\ DownloadIdle
    /\ MetaIdle
    /\ StoreIdle
    /\ TextIdle
    /\ EventsIdle
    /\ file = NoFile
    /\ file_info = <<>>
    /\ info_dict \in [title : Titles, description : {<<>>, <<"red", "sox", "at", "Yankees">>},
                      date_obj : {0} \cup Days]
    /\ named = NoName

NextName == DeterminePathAndName

SpecName == InitName /\ [][NextName]_vars

\* the sentinel of an unknown team, as Utils.extract_teams returns it and as
\* the lookups of the events return it
IsUnknown(team) == team \in {"unknown", "Unknown"}

\* C20: the naming step gives the directory unknown_teams/<path_date> under the
\* root exactly when the home or the away team is unknown after the
\* resolution, and the directory <path_date> exactly when both are known.
C20_UnknownTeamsDirectory ==
    named # NoName =>
        /\ named.error = ""
        /\ Len(named.path) \in {1, 2}
        /\ (Len(named.path) = 2 /\ named.path[1] = "unknown_teams")
              <=> (IsUnknown(named.home_team) \/ IsUnknown(named.away_team))

(***************************************************************************)
(* The file pipeline: fetch of video_file.py with any arguments            *)
(***************************************************************************)
\* the videos whose audio file is at its destination path in the library
AtDestination(files) == {f.video : f \in {g \in files : g.ext = "m4a"}}

\* Fetcher().fetch(...) of video_file.py is called on any library and any rows
\* of yt_metadata that pass the selection's conditions; a row of yt_video_file
\* was written for an audio file of the library
InitDownload ==
    /\ StoreIdle /\ TextIdle /\ EventsIdle /\ FilesIdle
    /\ IdIdle
    /\ videos_to_be_processed = {}
    /\ has_failed_metadata = {}
    /\ yt_metadata \in SUBSET VideoIds
    /\ is_quota_exceeded = FALSE
    /\ metadata_queue = <<>>
    /\ metadata_unfinished = 0
    /\ shutdown_event = FALSE
    /\ rpc = [w \in Workers |-> "none"]
    /\ spc = [w \in SaveWorkers |-> "none"]
    /\ epc = [w \in Workers |-> "none"]
    /\ video_ids = [w \in Workers |-> Unbound]
    /\ last_call = [w \in Workers |-> NoCall]
    /\ mfpc = "idle"
    /\ margs = NoArgs
    /\ video_file_queue = <<>>
    /\ file_unfinished = 0
    /\ dpc = [w \in Workers |-> "none"]
    /\ video_id_taken = [w \in Workers |-> Unbound]
    /\ ffpc = "start"
    /\ fargs \in FileArgs
    /\ library \in SUBSET LibraryFiles
    /\ yt_video_file \in SUBSET AtDestination(library)
    /\ download_calls = {}
    /\ download_errors = {}

NextDownload ==
    \/ FileFetchInvalid
    \/ FileFetchNoDirectory
    \/ FileFetchStart
    \/ \E w \in Workers : DownloadStart(w)
    \/ \E w \in Workers : DownloadExit(w)
    \/ \E w \in Workers, returncode \in Returncodes : DownloadEnd(w, returncode)
    \/ FileFetchJoin
    \/ FileFetchGather

SpecDownload == InitDownload /\ [][NextDownload]_vars

(***************************************************************************)
(* fetch of any of the three pipelines, with any arguments                 *)
(***************************************************************************)
InitAnyFetch == InitFetch \/ InitMeta \/ InitDownload

NextAnyFetch == NextFetch \/ NextMeta \/ NextDownload

SpecAnyFetch == InitAnyFetch /\ [][NextAnyFetch]_vars

\* a worker count that is not an integer, or is an integer below 1
NotPositiveInteger(n) == n.type # "int" \/ n.value < 1

\* the identifier pipeline has created no task, queued, stored and expanded nothing
IdUntouched ==
    /\ upc = NotCreated /\ ppc = NotCreated /\ vpc = NotCreated
    /\ Empty(user_id_queue) /\ Empty(playlist_id_queue) /\ Empty(video_id_queue)
    /\ \A name \in QueueNames : unfinished_tasks[name] = 0
    /\ yt_video_ids = {} /\ insert_calls = 0 /\ expanded_playlist_ids = {}

\* the metadata pipeline has created no task, queued nothing and sent no request
MetaUntouched ==
    /\ \A w \in Workers : rpc[w] = "none" /\ epc[w] = "none"
    /\ \A w \in SaveWorkers : spc[w] = "none"
    /\ Empty(metadata_queue) /\ metadata_unfinished = 0
    /\ \A w \in Workers : ~last_call[w].called /\ video_ids[w] = Unbound
    /\ yt_metadata = {}

\* the file pipeline has created no task, queued nothing and started no download
DownloadUntouched ==
    /\ \A w \in Workers : dpc[w] = "none"
    /\ Empty(video_file_queue) /\ file_unfinished = 0
    /\ download_calls = {} /\ download_errors = {}

NothingListed(pc, w, from, q) == pc[w] = from /\ pc'[w] # from /\ q' = q

\* the tasks of a pool other than w are where they were
OthersAsBefore(pc, w) == \A o \in Workers \ {w} : pc'[o] = pc[o]

\* C22: a step in which an enumeration for a user or playlist ID fails puts no
\* ID on a queue for it, does not put the ID back on its queue, and leaves the
\* worker in its loop: it goes on with the user's next enumeration and then with
\* its exit test and the next item; no other task of the three pools changes.
C22_FailedEnumerationSkipped ==
    [][\A w \in Workers :
          /\ NothingListed(ppc, w, "videos", video_id_queue) =>
                /\ playlist_id_queue' = playlist_id_queue
                /\ user_id_queue' = user_id_queue
                /\ ppc'[w] = "loop"
                /\ OthersAsBefore(ppc, w) /\ upc' = upc /\ vpc' = vpc
          /\ NothingListed(upc, w, "playlists", playlist_id_queue) =>
                /\ user_id_queue' = user_id_queue
                /\ video_id_queue' = video_id_queue
                /\ upc'[w] = "videos"
                /\ OthersAsBefore(upc, w) /\ ppc' = ppc /\ vpc' = vpc
          /\ NothingListed(upc, w, "videos", video_id_queue) =>
                /\ user_id_queue' = user_id_queue
                /\ playlist_id_queue' = playlist_id_queue
                /\ upc'[w] = "loop"
                /\ OthersAsBefore(upc, w) /\ ppc' = ppc /\ vpc' = vpc]_vars

(***************************************************************************)
(* Properties of the file pipeline                                         *)
(***************************************************************************)
\* a task of run_video_download that has returned
Returned(w) == dpc[w] \in {"finished", "failed"}

\* C23: a download whose subprocess exits nonzero is logged, and the worker that
\* ran it goes back to its loop to take further video IDs: whatever the exit
\* status, the step that ends a download leaves the worker in its loop, and a
\* worker task has returned only with the queue empty.
C23_FailedDownloadSkipped ==
    /\ [][\A w \in Workers :
             dpc[w] = "download" /\ dpc'[w] # "download" =>
                 /\ dpc'[w] = "loop"
                 /\ download_errors' \in
                        {download_errors, download_errors \cup Range(video_id_taken[w])}]_vars
    /\ [](\A w \in Workers : Returned(w) => Empty(video_file_queue))

SeedsOn(q, ids, id_files) ==
    /\ Range(q) = ids \cup id_files
    /\ Len(q) = Cardinality(ids) + Cardinality(id_files)

\* C25: the seeding step of fetch leaves every seed user ID on the user queue
\* and every seed playlist ID on the playlist queue, each once, and no seed on
\* the video queue; and when fetch has returned, the seed video IDs have been
\* inserted into storage.
C25_SeedsQueuedOnce ==
    /\ [][fpc = "start" /\ ~NotPositiveInteger(args.num_workers) =>
             /\ SeedsOn(user_id_queue', args.user_ids, args.user_id_files)
             /\ SeedsOn(playlist_id_queue', args.playlist_ids, args.playlist_id_files)
             /\ Empty(video_id_queue')]_vars
    /\ [](fpc = "returned" /\ ~NotPositiveInteger(args.num_workers) =>
             args.video_ids \cup args.video_id_files \subseteq yt_video_ids)

\* The event loop runs every task that is ready: a step that stays possible is
\* taken.  A worker that sleeps and tests again takes no step.
FairWorkers == SpecWorkers /\ WF_vars(NextWorkers)

\* C26: with every enumerator and database call returning, every user, playlist
\* and video worker eventually ends and fetch returns.
C26_FetchReturns == <>(fpc = "returned")


\* Each task of the metadata pipeline is run by the event loop when it is ready:
\* fetch and every worker take the steps that stay possible for them.
FairMeta ==
    /\ SpecMeta
    /\ WF_vars(MetaFetchInvalid \/ MetaFetchStart \/ MetaFetchShutdown
               \/ MetaFetchGather \/ MetaFetchJoin)
    /\ \A w \in Workers : WF_vars(Retrieve(w))
    /\ \A w \in SaveWorkers : WF_vars(SaveBreak(w))
    /\ \A w \in Workers : WF_vars(EventBreak(w))

\* C27: whatever the stored IDs and the answers of the metadata API, every
\* retrieval worker eventually ends and the metadata pipeline's fetch returns.
C27_MetaFetchReturns == <>(mfpc = "returned")


(***************************************************************************)
(* worker_save_metadata when the upsert fails                              *)
(***************************************************************************)
\* How insert_update_video_metadata can fail.  A psycopg2.Error of a statement is
\* caught inside it (database.py 411-413): logged and rolled back, and the call
\* returns.  Any other failure leaves the call as an exception: a key missing
\* from the record, a psycopg2.Error of getconn() that get_db_connection raises
\* again (database.py 73-75), or one of rollback() on a lost connection.
UpsertFailures == {"caught", "raised"}

\* lines 241-253: get() returns a record and its upsert fails.  An exception
\* leaving the upsert goes to the handler of line 247, past task_done() of
\* line 244.
SaveGetFails(w, failure) ==
    /\ spc[w] = "get"
    /\ ~Empty(metadata_queue)
    /\ metadata_queue' = Tail(metadata_queue)
    /\ metadata_unfinished' =
          IF failure = "caught" THEN metadata_unfinished - 1 ELSE metadata_unfinished
    /\ spc' = [spc EXCEPT ![w] =
                  IF SaveDone(Tail(metadata_queue)) THEN "finished" ELSE "loop"]
    /\ UNCHANGED <<videos_to_be_processed, has_failed_metadata, yt_metadata,
                   is_quota_exceeded, shutdown_event, rpc, epc, video_ids,
                   last_call, mfpc, margs, idvars>>

NextSaveFailures ==
    \/ NextMetaWorkers
    \/ \E w \in SaveWorkers, failure \in UpsertFailures : SaveGetFails(w, failure)

SpecSaveFailures == InitMetaWorkers /\ [][NextSaveFailures]_vars

\* C28: a failed upsert does not abort the save worker, and its record is
\* accounted as finished: once the save workers have ended, nothing is left
\* unfinished and metadata_queue.join() returns.
C28_FailedUpsertAccounted == (mfpc = "join") => (metadata_unfinished = 0)

\* the part of C28 that the code keeps: a save worker ends only by its exit test,
\* with the queue empty and shutdown signalled, whatever failed before
SaveWorkerContinues ==
    \A w \in SaveWorkers :
        spc[w] = "finished" => shutdown_event /\ Empty(metadata_queue)


(***************************************************************************)
(* Two processes run EventFetcher at the same time, for any dates and      *)
(* answers of the schedule API                                             *)
(***************************************************************************)
NextConcurrent ==
    \/ \E r \in Runners, date_stub \in Days, check_ok \in BOOLEAN :
          RunSetup(r, date_stub, check_ok)
    \/ \E r \in Runners :
          \E data \in ScheduleResponses(event_runs[r].date_stub) : RunFetch(r, data)
    \/ \E r \in Runners : RunSave(r)

SpecConcurrent == InitEvents /\ [][NextConcurrent]_vars

\* both runs are over, for the same date and with the same answer, and both
\* found the date not loaded
DuplicateFetches ==
    /\ \A r \in Runners : event_runs[r].pc = "done" /\ ~event_runs[r].already_loaded
    /\ event_runs[1].date_stub = event_runs[2].date_stub
    /\ event_runs[1].data = event_runs[2].data

\* the rows a run alone would have stored, from the rows it found
StoredAlone(r) == save_events(event_runs[r].seen, extract_events(event_runs[r].data.events))

\* C29: after two interleaved runs for the same date that both fetched and
\* inserted, e_events holds exactly the rows one run alone would have stored,
\* with one row per event ID.
C29_DuplicateFetchesHarmless ==
    /\ NoDuplicateEvent(e_events)
    /\ DuplicateFetches => \A r \in Runners : e_events = StoredAlone(r)

\* both runs saw the date as not loaded by their check, fetched the same events
\* and inserted them
C29_Witness ==
    /\ DuplicateFetches
    /\ \A r \in Runners : ~event_runs[r].check_failed /\ event_runs[r].seen = <<>>
    /\ Len(extract_events(event_runs[1].data.events)) > 1
    /\ e_events # <<>>


\* C30: when both teams are unknown after the title and the description, the
\* naming step gives a name, and the lookup of the event ID returns no event for
\* it, so the name carries no {e-...} token.
C30_BothUnknownNoEvent ==
    (named # NoName /\ IsUnknown(named.home_team) /\ IsUnknown(named.away_team)) =>
        /\ named.error = ""
        /\ get_event_id(e_events, info_dict.date_obj, named.home_team,
                        named.away_team) = {""}


\* C31: when the naming step finds a date in the title or the description, the
\* events of that date are loaded (a run of EventFetcher for it is over) before
\* the lookups of the team and of the event ID, so the step gives a name after
\* that run.
C31_EventsLoadedBeforeLookups ==
    (named # NoName /\ info_dict.date_obj # 0) =>
        /\ named.error = ""
        /\ event_run.date_stub = info_dict.date_obj


\* fetch of video_file.py and each of its tasks take the steps that stay possible
\* for them, and every subprocess of a download ends
FairDownload ==
    /\ SpecDownload
    /\ WF_vars(FileFetchInvalid \/ FileFetchNoDirectory \/ FileFetchStart
               \/ FileFetchJoin \/ FileFetchGather)
    /\ \A w \in Workers :
          WF_vars(DownloadStart(w) \/ DownloadExit(w)
                  \/ \E returncode \in Returncodes : DownloadEnd(w, returncode))

\* C32: with a positive integer num_workers, whatever the selection and the exit
\* codes of the downloads, every queued video ID is eventually taken and fetch of
\* the file pipeline returns.
C32_FileFetchReturns ==
    ~invalid_num_workers(fargs.num_workers)
        => <>(ffpc = "returned" /\ Empty(video_file_queue))


(***************************************************************************)
(* The connection pool: any task calls any method of DatabaseOperations,   *)
(* which is left on any path; the pool is closed at any time between calls *)
(***************************************************************************)
NextPool ==
    \/ \E w \in Workers, method \in PoolUsers : DbEnter(w, method)
    \/ \E w \in Workers, exit \in ExitPaths : DbBody(w, exit)
    \/ \E w \in Workers : DbExit(w)
    \/ ClosePool

SpecPool == InitStore /\ [][NextPool]_vars

InitEarlier ==
    /\ OthersIdle
    /\ MetaIdle
    /\ InitLocals
    /\ user_id_queue \in {<<>>, <<"u1">>}
    /\ playlist_id_queue \in Fitting(PlaylistListing, <<>>)
    /\ video_id_queue \in Fitting(VideoListing, <<>>)
    /\ unfinished_tasks = [name \in QueueNames |->
                             CASE name = "user_id" -> Len(user_id_queue)
                               [] name = "playlist_id" -> Len(playlist_id_queue)
                               [] OTHER -> 0]
    /\ active_tasks = [name \in QueueNames |-> 0]
    /\ upc = Created /\ ppc = Created /\ vpc = Created
    /\ fpc = "gather"
    /\ args = NoArgs

NextEarlier ==
    \/ \E w \in Workers, window, started1, started2 \in BOOLEAN :
          EarlierUserLoop(w, window, started1, started2)
    \/ \E w \in Workers, started1, started2 \in BOOLEAN :
          EarlierUserResume(w, started1, started2)
    \/ \E w \in Workers : EarlierUserTimeout(w)
    \/ \E w \in Workers, found \in EnumResults(PlaylistListing), started2 \in BOOLEAN :
          EarlierUserPlaylists(w, found, started2)
    \/ \E w \in Workers, found \in EnumResults(VideoListing) :
          EarlierUserVideos(w, found)
    \/ \E w \in Workers, window, started \in BOOLEAN :
          EarlierPlaylistLoop(w, window, started)
    \/ \E w \in Workers, window, started \in BOOLEAN :
          EarlierPlaylistWoken(w, window, started)
    \/ \E w \in Workers, started \in BOOLEAN : EarlierPlaylistResume(w, started)
    \/ \E w \in Workers : EarlierPlaylistTimeout(w)
    \/ \E w \in Workers, found \in EnumResults(VideoListing) :
          EarlierPlaylistVideos(w, found)
    \/ \E w \in Workers : EarlierVideoPass(w)
    \/ \E users, playlists, videos \in SUBSET Workers :
          Tick(users, playlists, videos)

SpecEarlier == InitEarlier /\ [][NextEarlier]_vars

\* the step sets the Event of queue name
Sets(name) == ~queue_done[name] /\ queue_done'[name]

\* C34: in the earlier revision user_id_queue_done is never set while a user
\* worker has taken an item from the queue and has not finished it, and
\* playlist_id_queue_done is never set before user_id_queue_done, nor while a
\* playlist worker has taken an item and has not finished it.
C34_DoneFlagsWaitForWorkers ==
    [][/\ Sets("user_id") => \A w \in Workers : ~Holding(upc, w)
       /\ Sets("playlist_id") =>
             /\ queue_done["user_id"]
             /\ \A w \in Workers : ~Holding(ppc, w)]_vars

(***************************************************************************)
(* The counters of the identifier pipeline                                 *)
(***************************************************************************)
\* the workers between the increment of active_tasks (lines 224, 268) and the
\* decrement of the finally block (lines 250, 289)
Counted(pc) == {w \in Workers : pc[w] \in {"get", "playlists", "videos"}}

\* C35: each active_tasks counter equals the number of workers of its class
\* that are between their increment and their decrement (a video worker is so
\* only within one step): it is never negative, no path skips the decrement,
\* and it is 0 whenever no worker of the class is processing.
C35_ActiveTasksCountWorkers ==
    /\ active_tasks["user_id"] = Cardinality(Counted(upc))
    /\ active_tasks["playlist_id"] = Cardinality(Counted(ppc))
    /\ active_tasks["video_id"] = 0

\* the workers that hold an item they removed from their queue with get()
Holders(pc) == {w \in Workers : pc[w] \in {"playlists", "videos"}}

\* C36: task_done() is called exactly once for each item a worker removed with
\* get() and never without one: the unfinished-task count of the user, playlist
\* and metadata queue equals the number of items put and not yet fully
\* processed, which are the items on the queue and the items workers hold (a
\* save worker holds a record only within one step).
C36_TaskDoneMatchesItems ==
    /\ unfinished_tasks["user_id"] = Len(user_id_queue) + Cardinality(Holders(upc))
    /\ unfinished_tasks["playlist_id"] =
          Len(playlist_id_queue) + Cardinality(Holders(ppc))
    /\ metadata_unfinished = Len(metadata_queue)

(***************************************************************************)
(* The two date extractions on one text                                    *)
(***************************************************************************)
NextBothDates == ExtractDate \/ FetcherExtractDate

SpecBothDates == InitDate /\ [][NextBothDates]_vars

\* C37: for every text, Fetcher.extract_date of video_download.py and
\* Utils.extract_date return the same date, or both return none.
C37_ExtractionsAgree ==
    (extracted # NoExtract /\ fetcher_date # NoFetched) =>
        /\ ~fetcher_date.raised
        /\ fetcher_date.date = extracted.date

(***************************************************************************)
(* The batches of the retrieval workers                                    *)
(***************************************************************************)
\* the IDs the retrieval workers have handed to fetch_video_metadata, as far as
\* their last calls show
Handed == UNION {last_call[w].batch : w \in Workers}

RunsAgain(r, o) ==
    /\ event_runs[o].pc = "done" /\ event_runs[o].data.ok
    /\ ~event_runs[o].check_failed
    /\ event_runs[r].pc = "idle" /\ event_runs'[r].pc # "idle"
    /\ event_runs'[r].date_stub = event_runs[o].date_stub
    /\ ~event_runs'[r].check_failed

\* C39: over runs of EventFetcher.run for one date that each run to completion,
\* the schedule API is requested at most once, whatever it answered the first
\* time: a run that follows a completed one with a successful answer goes on
\* without a request.
C39_OneRequestPerDate ==
    [][\A r, o \in Runners : RunsAgain(r, o) => event_runs'[r].pc = "done"]_vars


(***************************************************************************)
(* The pool and the tasks of a fetch call                                  *)
(***************************************************************************)
\* no task of the pool pc is pending: none was created, or each has ended
NonePending(pc) == \A w \in DOMAIN pc : pc[w] \in {"none", "finished", "died"}

\* C40: in the identifier and metadata pipelines, whenever the connection pool
\* has been closed, every worker task that the fetch call created has finished,
\* whichever way fetch was left.
C40_PoolClosedAfterWorkers ==
    pool_closed =>
        /\ NonePending(upc) /\ NonePending(ppc) /\ NonePending(vpc)
        /\ NonePending(rpc) /\ NonePending(spc) /\ NonePending(epc)

====
